---- MODULE Spec2Model ----
(***************************************************************************)
(* A model of ghh_json.h (garrisonhh/ghh_json): the vector, the hash map    *)
(* behind JSON objects, the parser and the serializer.                      *)
(*                                                                          *)
(* Pointers to json_object_t are modelled by small integers (NULL is 0) or   *)
(* by the object pointed to, C strings by the sequences of their            *)
(* characters, size_t by integers modulo SIZE_MAX + 1.                      *)
(***************************************************************************)
EXTENDS Integers, Sequences, FiniteSets, TLC

\* ------------------------------------------------------------------ bounds

\* size_t arithmetic wraps at SIZE_MAX + 1.  The program's size_t has 64 bits,
\* which is beyond the integers of the model checker; every quantity of the
\* model stays far below this modulus, so only the wrap at 0 shows.
SIZE_MAX == 65535
\* the largest number of entries of a key-order list the model lets a put reach
MaxVecSize == 3
\* json_hmap_put never initialises node.steps: the values the read may yield
MaxUninit == 1
\* the child pointers handed to json_put: 1..MaxObject
MaxObject == 2
\* how far below 0 the model follows a size that wraps
MaxUnder == 2
\* the most calls of json_vec_push on the vector on its own
MaxPush == 13
\* the capacities json_vec_make is called with: 0..MaxMinCap
MaxMinCap == 6
\* the most elements of an array and the most puts on an object of a document
MaxElems == 2
\* the indent json_serialize is called with: 0..MaxIndent
MaxIndent == 1
\* the most pushes on a vector that is pushed and popped in any order
MaxVecOps == 8

\* ------------------------------------------------------- program constants

JSON_VEC_INIT_CAP == 8
JSON_HMAP_INIT_CAP == 8
JSON_SERIALIZER_BUF_SIZE == 1024
JSON_STRINGY_INIT_CAP == 256

NULL == 0

SizeMod == SIZE_MAX + 1
Inc(n) == (n + 1) % SizeMod
Dec(n) == (n + SizeMod - 1) % SizeMod

UninitSteps == 0..MaxUninit
Objects == 1..MaxObject

\* ------------------------------------------------------------------ vector
\* A json_vec_t is [data, size, cap, min_cap]; data holds the cells 0..size-1
\* (as data[1]..data[size]).  The cells from size on are never read before
\* they are written: json_vec_push writes data[size] before it counts it.

json_vec_make(init_cap) ==
    [data |-> << >>, size |-> 0, cap |-> init_cap, min_cap |-> init_cap]

json_vec_alloc_one(vec) ==
    IF vec.size + 1 > vec.cap
    THEN [vec EXCEPT !.cap = (vec.cap * 2) % SizeMod]
    ELSE vec

\* json_vec_shrinks with the size compared to an eighth of the capacity
json_vec_shrinks_eighth(vec) ==
    vec.cap > vec.min_cap /\ vec.size < vec.cap \div 8

\* TRUE when json_vec_free_one reallocates (halves) the block
json_vec_shrinks(vec) ==
    vec.cap > vec.min_cap /\ vec.size < vec.cap \div 4

\* json_vec_free_one with the size tested after it was decremented
json_vec_free_one_after(vec) ==
    [vec EXCEPT !.cap = IF vec.cap > vec.min_cap /\ Dec(vec.size) < vec.cap \div 4
                        THEN vec.cap \div 2 ELSE vec.cap,
                !.size = Dec(vec.size)]

\* the size and capacity json_vec_free_one leaves; the cells are the caller's
json_vec_free_one(vec) ==
    [vec EXCEPT !.cap = IF json_vec_shrinks(vec) THEN vec.cap \div 2 ELSE vec.cap,
                !.size = Dec(vec.size)]

json_vec_push(vec, item) ==
    LET v == json_vec_alloc_one(vec)
    IN  [v EXCEPT !.data = Append(v.data, item), !.size = Inc(v.size)]

json_vec_pop(vec) ==
    LET v == json_vec_free_one(vec)
    IN  [v EXCEPT !.data = SubSeq(vec.data, 1, Len(vec.data) - 1)]

\* vec->data[index] = json_vec_pop(json, vec): C leaves the order of
\* evaluating the two sides open.  With lhs_first the address vec->data + index
\* is taken before the pop; when the pop then reallocates the block, the store
\* goes to the freed block and the new block keeps the cell as it was.
\* index counts from 0.
\* TRUE when the store of json_vec_del goes through the address of the block
\* that the json_vec_pop on its right side gave back
json_vec_del_stale(vec, lhs_first) == lhs_first /\ json_vec_shrinks(vec)

json_vec_del(vec, index, lhs_first) ==
    LET last == vec.data[vec.size]
        v == json_vec_pop(vec)
        lost == lhs_first /\ json_vec_shrinks(vec)
    IN  IF index + 1 <= Len(v.data) /\ ~lost
        THEN [v EXCEPT !.data[index + 1] = last]
        ELSE v

\* memcpy(dst, src, n cells) with dst one cell below src.  The two ranges
\* overlap as soon as n >= 2, which memcpy leaves undefined: an ascending copy
\* moves the cells down by one, a descending copy (backward) reads cells it has
\* already overwritten and fills the range with the last cell.
RECURSIVE memcpy_down(_, _, _)
memcpy_down(data, i, last) ==
    \* descending copy of cells i+1..last (1-based) onto i..last-1
    IF last <= i THEN data
    ELSE memcpy_down([data EXCEPT ![last - 1] = data[last]], i, last - 1)

memcpy_cells(data, index, n, backward) ==
    IF backward /\ n >= 2
    THEN memcpy_down(data, index + 1, index + 1 + n)
    ELSE [j \in 1..Len(data) |->
             IF j >= index + 1 /\ j <= index + n THEN data[j + 1] ELSE data[j]]

json_vec_del_ordered(vec, index, backward) ==
    LET moved == memcpy_cells(vec.data, index, vec.size - index - 1, backward)
        v == json_vec_free_one(vec)
    IN  [v EXCEPT !.data = SubSeq(moved, 1, Len(moved) - 1)]

\* ----------------------------------------------------------------- hashing
\* A C string is the sequence of its characters, without the terminator.
\* json_hash_str is FNV-1a over 64 bits.  The model fixes the hash of each of
\* its keys: the homes of "a", "b" and "d" collide in a table of 8 slots, those
\* of "a" and "d" in one of 16; "z" stands for a string whose hash is 0 and
\* "a2" for a string with the hash of "a".
json_hash_str(key) ==
    CASE key = <<"a">> -> 1
      [] key = <<"b">> -> 9
      [] key = <<"c">> -> 2
      [] key = <<"d">> -> 17
      [] key = <<"e">> -> 10
      [] key = <<"a", "2">> -> 1
      [] key = <<"z">> -> 0
      [] key = <<"f">> -> 3
      [] key = <<"g">> -> 4
      [] key = <<"h">> -> 5
      [] key = <<"i">> -> 6

\* ---------------------------------------------------------------- hash map
\* A json_hmap_t is [vec, nodes, size, cap, min_cap]; nodes maps 0..cap-1 to
\* json_hnode_t records [object, hash, index, steps].

\* json_hnodes_alloc sets only the hash of each node.  The other fields of a
\* node whose hash is 0 are read by json_hmap_del alone, and only for a key
\* whose hash is 0: EmptyNode stands for a slot whose other fields hold what
\* the allocator or a deleted node left there.
EmptyNode == [object |-> NULL, hash |-> 0, index |-> 0, steps |-> 0]

json_hnodes_alloc(num_nodes) == [i \in 0..(num_nodes - 1) |-> EmptyNode]

json_hmap_make(init_cap) ==
    [vec |-> json_vec_make(init_cap),
     nodes |-> json_hnodes_alloc(init_cap),
     size |-> 0, cap |-> init_cap, min_cap |-> init_cap]

\* what an operation yields when one of its probe loops never exits
Hung == [hung |-> TRUE]
IsHung(h) == "hung" \in DOMAIN h

\* the slot json_hmap_get_node returns: its index, -1 for NULL, -2 when the
\* loop meets neither the hash nor an empty slot (fuel counts the slots)
RECURSIVE get_node_loop(_, _, _, _)
get_node_loop(hmap, hash, index, fuel) ==
    IF hmap.nodes[index].hash = 0 THEN -1
    ELSE IF hmap.nodes[index].hash = hash THEN index
    ELSE IF fuel = 0 THEN -2
    ELSE get_node_loop(hmap, hash, (index + 1) % hmap.cap, fuel - 1)

json_hmap_get_node(hmap, hash) ==
    get_node_loop(hmap, hash, hash % hmap.cap, hmap.cap)

json_hmap_get(hmap, key) ==
    LET i == json_hmap_get_node(hmap, json_hash_str(key))
    IN  IF i >= 0 THEN hmap.nodes[i].object ELSE NULL

RECURSIVE json_hmap_put_node(_, _, _, _)
RECURSIVE rehash_loop(_, _, _, _)

json_hmap_rehash(hmap, new_cap) ==
    LET h == [hmap EXCEPT !.cap = new_cap,
                          !.nodes = json_hnodes_alloc(new_cap),
                          !.size = 0]
    IN  rehash_loop(h, hmap.nodes, 0, hmap.cap)

json_hmap_alloc_slot(hmap) ==
    LET h == IF Inc(hmap.size) > hmap.cap \div 2
             THEN json_hmap_rehash(hmap, (hmap.cap * 2) % SizeMod)
             ELSE hmap
    IN  IF IsHung(h) THEN Hung ELSE [h EXCEPT !.size = Inc(h.size)]

json_hmap_free_slot(hmap) ==
    LET h == IF hmap.size < hmap.cap \div 4 /\ hmap.cap > hmap.min_cap
             THEN json_hmap_rehash(hmap, hmap.cap \div 2)
             ELSE hmap
    IN  IF IsHung(h) THEN Hung ELSE [h EXCEPT !.size = Dec(h.size)]

\* the loop of json_hmap_put_node from slot index on
json_hmap_put_node(hmap, node, index, fuel) ==
    IF hmap.nodes[index].hash # 0
    THEN IF hmap.nodes[index].hash = node.hash
         THEN [hmap EXCEPT !.nodes[index].object = node.object]
         ELSE IF fuel = 0 THEN Hung
         ELSE json_hmap_put_node(hmap, [node EXCEPT !.steps = Inc(node.steps)],
                                 (index + 1) % hmap.cap, fuel - 1)
    ELSE json_hmap_alloc_slot([hmap EXCEPT !.nodes[index] = node])

\* the loop of json_hmap_rehash over the old table, from slot i on
rehash_loop(hmap, old_nodes, i, old_cap) ==
    IF i >= old_cap \/ IsHung(hmap) THEN hmap
    ELSE IF old_nodes[i].hash # 0
    THEN LET node == [old_nodes[i] EXCEPT !.index = old_nodes[i].hash % hmap.cap,
                                          !.steps = 0]
         IN  rehash_loop(json_hmap_put_node(hmap, node, node.index, hmap.cap),
                         old_nodes, i + 1, old_cap)
    ELSE rehash_loop(hmap, old_nodes, i + 1, old_cap)

\* json_hmap_put leaves node.steps as it finds it on the stack: uninit is
\* the value the first read of it yields
json_hmap_put(hmap, key, object, uninit) ==
    LET h == [hmap EXCEPT !.vec = json_vec_push(hmap.vec, key)]
        hash == json_hash_str(key)
        node == [object |-> object, hash |-> hash,
                 index |-> hash % h.cap, steps |-> uninit]
    IN  json_hmap_put_node(h, node, node.index, h.cap)

\* the search loop of json_hmap_del: the slot whose hash is the key's, -1 when
\* an empty slot comes first, -2 when neither comes
RECURSIVE del_find(_, _, _, _)
del_find(hmap, hash, index, fuel) ==
    IF hmap.nodes[index].hash = hash THEN index
    ELSE IF hmap.nodes[index].hash = 0 THEN -1
    ELSE IF fuel = 0 THEN -2
    ELSE del_find(hmap, hash, (index + 1) % hmap.cap, fuel - 1)

\* the chain replacement loop of json_hmap_del, about to step from index
RECURSIVE del_chain(_, _, _, _, _)
del_chain(hmap, index, last, steps, fuel) ==
    LET next == (index + 1) % hmap.cap
        s == Inc(steps)
    IN  IF hmap.nodes[next].hash = 0
        THEN \* hmap->nodes[last].hash = 0
             [hmap EXCEPT !.nodes[last] = EmptyNode]
        ELSE IF fuel = 0 THEN Hung
        ELSE IF hmap.nodes[next].steps >= s
        THEN del_chain([hmap EXCEPT
                           !.nodes[last] = [hmap.nodes[next] EXCEPT
                                               !.steps = hmap.nodes[next].steps - s]],
                       next, next, 0, fuel - 1)
        ELSE del_chain(hmap, next, last, s, fuel - 1)

\* the position (from 0) of the first cell of the key-order list that holds key,
\* -1 when none does
RECURSIVE vec_find(_, _, _)
vec_find(data, key, i) ==
    IF i >= Len(data) THEN -1
    ELSE IF data[i + 1] = key THEN i
    ELSE vec_find(data, key, i + 1)

\* json_hmap_del: [hmap, ret, stale]; ret is the object returned, NULL for not
\* found; stale tells whether the call stored through a stale address.
\* lhs_first and backward: what the build makes of the two constructs of the
\* vector code that C leaves open (see json_vec_del and memcpy_cells).  The
\* search loop stops at an empty slot when the key's hash is 0.  The object of
\* an empty slot is what a put of such a key wrote there, and else was never
\* initialised or is what a deleted node left: junk is what reading it yields
\* then.
json_hmap_del(hmap, key, order, lhs_first, backward, junk) ==
    LET hash == json_hash_str(key)
        index == del_find(hmap, hash, hash % hmap.cap, hmap.cap)
    IN  IF index = -1 THEN [hmap |-> hmap, ret |-> NULL, stale |-> FALSE]
        ELSE IF index = -2 THEN [hmap |-> Hung, ret |-> NULL, stale |-> FALSE]
        ELSE
        LET object == IF hmap.nodes[index] = EmptyNode THEN junk
                      ELSE hmap.nodes[index].object
            h1 == del_chain(hmap, index, index, 0, hmap.cap)
            h2 == IF IsHung(h1) THEN Hung ELSE json_hmap_free_slot(h1)
            i == IF IsHung(h2) THEN -1 ELSE vec_find(h2.vec.data, key, 0)
        IN  IF IsHung(h2) THEN [hmap |-> Hung, ret |-> object, stale |-> FALSE]
            ELSE IF i < 0 THEN [hmap |-> h2, ret |-> object, stale |-> FALSE]
            ELSE IF order
            THEN [hmap |-> [h2 EXCEPT !.vec = json_vec_del_ordered(h2.vec, i, backward)],
                  ret |-> object, stale |-> FALSE]
            ELSE [hmap |-> [h2 EXCEPT !.vec = json_vec_del(h2.vec, i, lhs_first)],
                  ret |-> object, stale |-> json_vec_del_stale(h2.vec, lhs_first)]

\* -------------------------------------------------------------- characters
\* A character is a string of length 1; NUL is the terminator of a C string
\* and BS the backspace, for which the strings of the model have no escape.

NUL == "NUL"
BS == "BS"

\* the character of text at index (from 0); the terminator follows the last
At(text, index) == IF index < Len(text) THEN text[index + 1] ELSE NUL

\* JSON_ESCAPE_CHARACTERS_X: X(a, b), a the letter after the backslash and b the
\* character it stands for
JSON_ESCAPE_CHARACTERS_X ==
    << << "\"", "\"" >>, << "\\", "\\" >>, << "/", "/" >>, << "b", BS >>,
       << "f", "\f" >>, << "n", "\n" >>, << "r", "\r" >>, << "t", "\t" >> >>

EscapeIndex == DOMAIN JSON_ESCAPE_CHARACTERS_X

\* json_is_whitespace without the case of the tab
json_is_whitespace_no_tab(ch) == ch \in {" ", "\n", "\r"}

json_is_whitespace(ch) == ch \in {" ", "\n", "\r", "\t"}

DigitChars == << "0", "1", "2", "3", "4", "5", "6", "7", "8", "9" >>

json_is_digit(ch) == \E d \in DOMAIN DigitChars : DigitChars[d] = ch

\* ch - '0' for a digit ch
DigitValue(ch) == (CHOOSE d \in DOMAIN DigitChars : DigitChars[d] = ch) - 1

\* ------------------------------------------------------------------ values
\* A json_object_t is [type, ...] with the member of the union that its type
\* selects: number, string, vec (a json_vec_t of children) or hmap (a
\* json_hmap_t whose nodes hold the children).  A double is the integer count
\* of its millionths, the resolution of the "%lf" that prints it; the model
\* keeps to numbers that this count represents exactly.

NumberScale == 1000000

\* a NULL json_object_t *, where the model holds objects themselves
NullObject == [type |-> "NULL"]

json_new_null == [type |-> "JSON_NULL"]
json_new_bool(value) == [type |-> IF value THEN "JSON_TRUE" ELSE "JSON_FALSE"]
json_new_number(number) == [type |-> "JSON_NUMBER", number |-> number]
json_new_string(string) == [type |-> "JSON_STRING", string |-> string]

RECURSIVE vec_push_all(_, _, _)
vec_push_all(v, objects, i) ==
    IF i > Len(objects) THEN v
    ELSE vec_push_all(json_vec_push(v, objects[i]), objects, i + 1)

\* json_new_array(json, objects, size) with size = Len(objects)
json_new_array(objects) ==
    [type |-> "JSON_ARRAY",
     vec |-> vec_push_all(json_vec_make(Len(objects)), objects, 1)]

json_new_object ==
    [type |-> "JSON_OBJECT", hmap |-> json_hmap_make(JSON_HMAP_INIT_CAP)]

\* json_put(json, object, key, child) for each <<key, child>> of pairs in turn,
\* on the object an API client builds; uninit as in json_hmap_put
RECURSIVE put_all(_, _, _, _)
put_all(object, pairs, i, uninit) ==
    IF i > Len(pairs) \/ IsHung(object.hmap) THEN object
    ELSE put_all([object EXCEPT
                     !.hmap = json_hmap_put(object.hmap, pairs[i][1],
                                            pairs[i][2], uninit)],
                 pairs, i + 1, uninit)

\* the keys of an object as json_serialize_obj walks them
ObjectKeys(object) ==
    {object.hmap.vec.data[i] : i \in 1..Len(object.hmap.vec.data)}

\* the child json_get_object returns, NullObject for NULL
json_get_object(object, key) ==
    IF json_hmap_get_node(object.hmap, json_hash_str(key)) >= 0
    THEN json_hmap_get(object.hmap, key)
    ELSE NullObject

\* -------------------------------------------------------------- serializer

\* a json_stringy_t: str holds the pos characters written; over is set once a
\* write went past the end of a block, past once strncpy went past the end of
\* the block of str
json_stringy_make ==
    [str |-> << >>, pos |-> 0, cap |-> JSON_STRINGY_INIT_CAP, over |-> FALSE,
     past |-> FALSE]

\* strncpy(dst, str, len): the characters of str, then NULs up to len
strncpy(str, len) ==
    [i \in 1..len |-> IF i <= Len(str) THEN str[i] ELSE NUL]

\* json_stringy_append doubles the capacity once, whatever len is
json_stringy_append(stringy, str, len) ==
    LET cap == IF stringy.pos + len >= stringy.cap
               THEN (stringy.cap * 2) % SizeMod
               ELSE stringy.cap
    IN  [str |-> stringy.str \o strncpy(str, len),
         pos |-> stringy.pos + len,
         cap |-> cap,
         over |-> stringy.over \/ stringy.pos + len > cap,
         past |-> stringy.past \/ stringy.pos + len > cap]

\* an nlwidth of 2 in either mode
nlwidth_always_two(mini) == 2

\* ser_ctx.nlwidth = ser_ctx.mini ? 1 : 2
nlwidth(mini) == IF mini THEN 1 ELSE 2

\* A json_serializer_t is [stringy, level, indent, nlwidth, mini, fault]; fault
\* is set once the serializer read through a NULL object pointer.
\* json_stringy_append(&ser_ctx->stringy, str, len)
ser_append(ser_ctx, str, len) ==
    [ser_ctx EXCEPT !.stringy = json_stringy_append(ser_ctx.stringy, str, len)]

\* a serializer that takes no character for one to escape
EscapeOf_none(ch) == 0

\* the index of ch in JSON_ESCAPE_CHARACTERS_X as a character to escape, 0 when
\* it is none
EscapeOf(ch) ==
    IF \E e \in EscapeIndex : JSON_ESCAPE_CHARACTERS_X[e][2] = ch
    THEN CHOOSE e \in EscapeIndex : JSON_ESCAPE_CHARACTERS_X[e][2] = ch
    ELSE 0

\* the switch of json_serialize_string on one character
serialize_char(ser_ctx, ch, e) ==
    IF e # 0
    THEN ser_append(ser_ctx, << "\\", JSON_ESCAPE_CHARACTERS_X[e][1] >>, 2)
    ELSE ser_append(ser_ctx, << ch >>, 1)

\* the loop of json_serialize_string over the characters from i on
RECURSIVE serialize_chars(_, _, _)
serialize_chars(ser_ctx, str, i) ==
    IF i > Len(str) THEN ser_ctx
    ELSE serialize_chars(serialize_char(ser_ctx, str[i], EscapeOf(str[i])),
                         str, i + 1)

json_serialize_string(ser_ctx, str) ==
    ser_append(serialize_chars(ser_append(ser_ctx, << "\"" >>, 1), str, 1),
               << "\"" >>, 1)

Spaces(n) == [i \in 1..n |-> " "]

\* sprintf(buf, "%*s", indent, "") writes indent spaces and a NUL into the
\* buffer of JSON_SERIALIZER_BUF_SIZE characters
json_serialize_indent(ser_ctx) ==
    IF ser_ctx.mini THEN ser_ctx
    ELSE [ser_append(ser_ctx, Spaces(ser_ctx.level * ser_ctx.indent),
                     ser_ctx.level * ser_ctx.indent)
             EXCEPT !.stringy.over =
                 @ \/ ser_ctx.level * ser_ctx.indent + 1 > JSON_SERIALIZER_BUF_SIZE]

\* the decimal digits of n >= 0
RECURSIVE DecimalDigits(_)
DecimalDigits(n) ==
    IF n < 10 THEN << DigitChars[n + 1] >>
    ELSE DecimalDigits(n \div 10) \o << DigitChars[(n % 10) + 1] >>

\* the last width decimal digits of n >= 0, with leading zeros
RECURSIVE FixedDigits(_, _)
FixedDigits(n, width) ==
    IF width = 0 THEN << >>
    ELSE FixedDigits(n \div 10, width - 1) \o << DigitChars[(n % 10) + 1] >>

Abs(n) == IF n < 0 THEN -n ELSE n
Sign(n) == IF n < 0 THEN << "-" >> ELSE << >>

\* sprintf(buf, "%ld", (long)number) for a number without a fraction
sprintf_ld(number) ==
    Sign(number) \o DecimalDigits(Abs(number) \div NumberScale)

\* sprintf(buf, "%lf", number): six digits after the point
sprintf_lf(number) ==
    Sign(number) \o DecimalDigits(Abs(number) \div NumberScale) \o << "." >>
        \o FixedDigits(Abs(number) % NumberScale, 6)

\* the case JSON_NUMBER of json_serialize_value
serialize_number(ser_ctx, buf) == ser_append(ser_ctx, buf, Len(buf))

\* the opening bracket and its line break, one level down
serialize_open(ser_ctx, bracket) ==
    [ser_append(ser_ctx, << bracket, "\n" >>, ser_ctx.nlwidth)
        EXCEPT !.level = @ + 1]

\* the separator before entry i of a container
serialize_separator(ser_ctx, i) ==
    IF i # 0 THEN ser_append(ser_ctx, << ",", "\n" >>, ser_ctx.nlwidth)
    ELSE ser_ctx

\* the line break after the last entry, one level up
serialize_last(ser_ctx) ==
    [(IF ~ser_ctx.mini THEN ser_append(ser_ctx, << "\n" >>, 1) ELSE ser_ctx)
        EXCEPT !.level = @ - 1]

\* a closing bracket that is followed by a line break of its own
serialize_close_newline(ser_ctx, bracket) ==
    ser_append(json_serialize_indent(serialize_last(ser_ctx)),
               << bracket, "\n" >>, 2)

\* the end of a container: line break, indent and closing bracket
serialize_close(ser_ctx, bracket) ==
    ser_append(json_serialize_indent(serialize_last(ser_ctx)), << bracket >>, 1)

\* indent, key and ": " of a field
serialize_key(ser_ctx, key) ==
    ser_append(json_serialize_string(json_serialize_indent(ser_ctx), key),
               << ":", " " >>, ser_ctx.nlwidth)

RECURSIVE json_serialize_value(_, _)
RECURSIVE serialize_items(_, _, _)
RECURSIVE serialize_fields(_, _, _)

json_serialize_array(ser_ctx, object) ==
    serialize_close(serialize_items(serialize_open(ser_ctx, "["), object, 0), "]")

json_serialize_obj(ser_ctx, object) ==
    serialize_close(serialize_fields(serialize_open(ser_ctx, "{"), object, 0), "}")

\* the loop of json_serialize_array from element i on
serialize_items(ser_ctx, object, i) ==
    IF i >= object.vec.size \/ ser_ctx.fault THEN ser_ctx
    ELSE serialize_items(
             json_serialize_value(
                 json_serialize_indent(serialize_separator(ser_ctx, i)),
                 object.vec.data[i + 1]),
             object, i + 1)

\* the loop of json_serialize_obj from key i of the key-order list on
serialize_fields(ser_ctx, object, i) ==
    IF i >= object.hmap.vec.size \/ ser_ctx.fault THEN ser_ctx
    ELSE serialize_fields(
             json_serialize_value(
                 serialize_key(serialize_separator(ser_ctx, i),
                               object.hmap.vec.data[i + 1]),
                 json_get_object(object, object.hmap.vec.data[i + 1])),
             object, i + 1)

json_serialize_value(ser_ctx, object) ==
    CASE object.type = "JSON_OBJECT" -> json_serialize_obj(ser_ctx, object)
      [] object.type = "JSON_ARRAY" -> json_serialize_array(ser_ctx, object)
      [] object.type = "JSON_STRING" -> json_serialize_string(ser_ctx, object.string)
      [] object.type = "JSON_NUMBER" ->
            serialize_number(ser_ctx,
                             IF object.number % NumberScale = 0
                             THEN sprintf_ld(object.number)
                             ELSE sprintf_lf(object.number))
      [] object.type = "JSON_TRUE" -> ser_append(ser_ctx, << "t", "r", "u", "e" >>, 4)
      [] object.type = "JSON_FALSE" ->
            ser_append(ser_ctx, << "f", "a", "l", "s", "e" >>, 5)
      [] object.type = "JSON_NULL" -> ser_append(ser_ctx, << "n", "u", "l", "l" >>, 4)
      [] object.type = "NULL" -> [ser_ctx EXCEPT !.fault = TRUE]

\* the characters of a C string held in cells: those before the first NUL
c_str(cells, i) ==
    LET nuls == {j \in i..Len(cells) : cells[j] = NUL}
    IN  IF nuls = {} THEN cells
        ELSE SubSeq(cells, 1, (CHOOSE j \in nuls : \A k \in nuls : j <= k) - 1)

\* what json_serialize returns for the context it ends with
serialized(ser_ctx) ==
    [str |-> c_str(ser_ctx.stringy.str, 1),
     out_len |-> ser_ctx.stringy.pos,
     over |-> ser_ctx.stringy.over,
     past |-> ser_ctx.stringy.past,
     fault |-> ser_ctx.fault]

\* json_serialize(object, mini, indent, out_len): [str, out_len, over, past,
\* fault]
json_serialize(object, mini, indent) ==
    serialized(
        ser_append(
            json_serialize_value([stringy |-> json_stringy_make, level |-> 0,
                                  indent |-> indent, nlwidth |-> nlwidth(mini),
                                  mini |-> mini, fault |-> FALSE],
                                 object),
            << "\n" >>, 2))

\* ------------------------------------------------------------------ parser
\* A json_ctx_t is the text and an index into it (from 0).  Each json_expect_*
\* yields [ok |-> TRUE, index, ...] or, where the code leaves through
\* JSON_CTX_ERROR (which exits), Failed.

Failed == [ok |-> FALSE]

\* json_next_token: the index of the first character from index on that is no
\* whitespace
RECURSIVE json_next_token(_, _)
json_next_token(text, index) ==
    IF json_is_whitespace(At(text, index))
    THEN json_next_token(text, index + 1)
    ELSE index

\* token as a C string of length - 1 or more characters: the terminator is
\* compared when length reaches it
json_token_equals(text, index, token, length) ==
    \A i \in 0..(length - 1) : At(text, index + i) = At(token, i)

json_expect_token(text, index, token, length) ==
    IF json_token_equals(text, index, token, length)
    THEN [ok |-> TRUE, index |-> index + length]
    ELSE Failed

\* the index of ch in JSON_ESCAPE_CHARACTERS_X as the letter of an escape, 0
\* when it is none
UnescapeOf(ch) ==
    IF \E e \in EscapeIndex : JSON_ESCAPE_CHARACTERS_X[e][1] = ch
    THEN CHOOSE e \in EscapeIndex : JSON_ESCAPE_CHARACTERS_X[e][1] = ch
    ELSE 0

\* a switch that takes the character after a backslash as it is when it is no
\* letter of JSON_ESCAPE_CHARACTERS_X
expect_escape_lenient(index, e) ==
    [ok |-> TRUE, index |-> index + 2,
     ch |-> IF e # 0 THEN JSON_ESCAPE_CHARACTERS_X[e][2] ELSE "?"]

\* the switch of json_expect_str_char on the character after a backslash
expect_escape(index, e) ==
    IF e # 0
    THEN [ok |-> TRUE, index |-> index + 2, ch |-> JSON_ESCAPE_CHARACTERS_X[e][2]]
    ELSE Failed

\* [ok, index, ch]
json_expect_str_char(text, index) ==
    IF At(text, index) = "\\"
    THEN expect_escape(index, UnescapeOf(At(text, index + 1)))
    ELSE [ok |-> TRUE, index |-> index + 1, ch |-> At(text, index)]

\* the loops of json_expect_string: one pass verifies and counts, a second one
\* reads the same characters again; str is what was read up to index
RECURSIVE expect_string_loop(_, _, _)
RECURSIVE expect_string_char(_, _, _)
expect_string_loop(text, index, str) ==
    IF At(text, index) = "\""
    THEN [ok |-> TRUE, index |-> index + 1, string |-> str, length |-> Len(str)]
    ELSE IF At(text, index) \in {"\n", NUL} THEN Failed
    ELSE expect_string_char(text, json_expect_str_char(text, index), str)

\* the loop of json_expect_string after json_expect_str_char yielded r
expect_string_char(text, r, str) ==
    IF r.ok THEN expect_string_loop(text, r.index, Append(str, r.ch))
    ELSE Failed

\* [ok, index, string, length]
json_expect_string(text, index) ==
    IF At(text, index) # "\"" THEN Failed
    ELSE expect_string_loop(text, index + 1, << >>)

\* the loop over the digits of the integral component: [index, num]
RECURSIVE integral_loop(_, _, _)
integral_loop(text, index, num) ==
    IF json_is_digit(At(text, index))
    THEN integral_loop(text, index + 1,
                       num * 10 + DigitValue(At(text, index)) * NumberScale)
    ELSE [index |-> index, num |-> num]

\* the loop over the digits of the fractional component: [index, num]; mult
\* is 1.0 for the first digit
RECURSIVE fract_loop(_, _, _, _)
fract_loop(text, index, fract, mult) ==
    IF json_is_digit(At(text, index))
    THEN fract_loop(text, index + 1,
                    fract + DigitValue(At(text, index)) * mult, mult \div 10)
    ELSE [index |-> index, num |-> fract]

\* the loop over the digits of the exponent: [index, num]
RECURSIVE exponent_loop(_, _, _)
exponent_loop(text, index, exponent) ==
    IF json_is_digit(At(text, index))
    THEN exponent_loop(text, index + 1, exponent * 10 + DigitValue(At(text, index)))
    ELSE [index |-> index, num |-> exponent]

\* num *= 10.0 (or 0.1, to the resolution of the model) exponent times
RECURSIVE scale_loop(_, _, _)
scale_loop(num, exponent, neg_exp) ==
    IF exponent = 0 THEN num
    ELSE scale_loop(IF neg_exp
                    THEN (IF num < 0 THEN -((-num) \div 10) ELSE num \div 10)
                    ELSE num * 10,
                    exponent - 1, neg_exp)

\* json_expect_number once the exponent ex is read
number_scaled(ex, num, neg_exp) ==
    [ok |-> TRUE, index |-> ex.index,
     number |-> scale_loop(num, ex.num, neg_exp)]

\* json_expect_number from the digits of the exponent at index on
number_exponent_digits(text, index, num, neg_exp) ==
    IF ~json_is_digit(At(text, index)) THEN Failed
    ELSE number_scaled(exponent_loop(text, index, 0), num, neg_exp)

\* json_expect_number from the exponential component on
number_exponent(text, index, num) ==
    IF At(text, index) \notin {"e", "E"}
    THEN [ok |-> TRUE, index |-> index, number |-> num]
    ELSE IF At(text, index + 1) \in {"+", "-"}
    THEN number_exponent_digits(text, index + 2, num, At(text, index + 1) = "-")
    ELSE number_exponent_digits(text, index + 1, num, FALSE)

\* json_expect_number once the fractional component fr is read
number_signed(text, fr, num, negative) ==
    number_exponent(text, fr.index,
                    IF negative THEN -(num + fr.num) ELSE num + fr.num)

\* json_expect_number once the integral component int is read
number_fraction(text, int, negative) ==
    IF At(text, int.index) = "."
    THEN IF ~json_is_digit(At(text, int.index + 1)) THEN Failed
         ELSE number_signed(text, fract_loop(text, int.index + 1, 0, NumberScale),
                            int.num, negative)
    ELSE number_signed(text, [index |-> int.index, num |-> 0], int.num, negative)

\* json_expect_number from the first digit at index on
number_integral(text, index, negative) ==
    IF ~json_is_digit(At(text, index)) THEN Failed
    ELSE number_fraction(text, integral_loop(text, index, 0), negative)

\* [ok, index, number]
json_expect_number(text, index) ==
    IF At(text, index) = "-" THEN number_integral(text, index + 1, TRUE)
    ELSE number_integral(text, index, FALSE)

RECURSIVE json_expect_value(_, _, _)
RECURSIVE expect_array_loop(_, _, _, _)
RECURSIVE expect_obj_loop(_, _, _, _)
RECURSIVE array_child(_, _, _, _)
RECURSIVE array_next(_, _, _, _)
RECURSIVE array_comma(_, _, _, _)
RECURSIVE obj_key(_, _, _, _)
RECURSIVE obj_colon(_, _, _, _, _)
RECURSIVE obj_child(_, _, _, _, _)
RECURSIVE obj_next(_, _, _, _)
RECURSIVE obj_comma(_, _, _, _)

\* json_expect_array after the whitespace that follows '['
array_first(text, index, v, uninit) ==
    IF At(text, index) = "]"
    THEN [ok |-> TRUE, index |-> index + 1,
          object |-> [type |-> "JSON_ARRAY", vec |-> v]]
    ELSE expect_array_loop(text, index, v, uninit)

\* [ok, index, object]; uninit as in json_hmap_put
json_expect_array(text, index, uninit) ==
    array_first(text, json_next_token(text, index + 1),
                json_vec_make(JSON_VEC_INIT_CAP), uninit)

\* the while loop of json_expect_array, at the start of a value
expect_array_loop(text, index, v, uninit) ==
    array_child(text, json_expect_value(text, index, uninit), v, uninit)

\* the loop once json_expect_value yielded child
array_child(text, child, v, uninit) ==
    IF ~child.ok THEN child
    ELSE array_next(text, json_next_token(text, child.index),
                    json_vec_push(v, child.object), uninit)

\* the loop after the whitespace that follows a value
array_next(text, index, v, uninit) ==
    IF At(text, index) = "]"
    THEN [ok |-> TRUE, index |-> index + 1,
          object |-> [type |-> "JSON_ARRAY", vec |-> v]]
    ELSE array_comma(text, json_expect_token(text, index, << "," >>, 1), v, uninit)

\* the loop once json_expect_token(",") yielded t
array_comma(text, t, v, uninit) ==
    IF ~t.ok THEN Failed
    ELSE expect_array_loop(text, json_next_token(text, t.index), v, uninit)

\* json_expect_obj after the whitespace that follows '{'
obj_first(text, index, h, uninit) ==
    IF At(text, index) = "}"
    THEN [ok |-> TRUE, index |-> index + 1,
          object |-> [type |-> "JSON_OBJECT", hmap |-> h]]
    ELSE expect_obj_loop(text, index, h, uninit)

\* [ok, index, object]
json_expect_obj(text, index, uninit) ==
    obj_first(text, json_next_token(text, index + 1),
              json_hmap_make(JSON_HMAP_INIT_CAP), uninit)

\* the while loop of json_expect_obj, at the start of a key
expect_obj_loop(text, index, h, uninit) ==
    obj_key(text, json_expect_string(text, index), h, uninit)

\* the loop once json_expect_string yielded key
obj_key(text, key, h, uninit) ==
    IF ~key.ok THEN Failed
    ELSE obj_colon(text,
                   json_expect_token(text, json_next_token(text, key.index),
                                     << ":" >>, 1),
                   key.string, h, uninit)

\* the loop once json_expect_token(":") yielded t
obj_colon(text, t, key, h, uninit) ==
    IF ~t.ok THEN Failed
    ELSE obj_child(text,
                   json_expect_value(text, json_next_token(text, t.index), uninit),
                   key, h, uninit)

\* the loop once json_expect_value yielded child
obj_child(text, child, key, h, uninit) ==
    IF ~child.ok THEN child
    ELSE obj_next(text, json_next_token(text, child.index),
                  json_hmap_put(h, key, child.object, uninit), uninit)

\* the loop after json_hmap_put and the whitespace that follows the value
obj_next(text, index, h, uninit) ==
    IF IsHung(h) THEN [ok |-> FALSE, hung |-> TRUE]
    ELSE IF At(text, index) = "}"
    THEN [ok |-> TRUE, index |-> index + 1,
          object |-> [type |-> "JSON_OBJECT", hmap |-> h]]
    ELSE obj_comma(text, json_expect_token(text, index, << "," >>, 1), h, uninit)

\* the loop once json_expect_token(",") yielded t
obj_comma(text, t, h, uninit) ==
    IF ~t.ok THEN Failed
    ELSE expect_obj_loop(text, json_next_token(text, t.index), h, uninit)

\* the object json_expect_value fills in once json_expect_token yielded t
value_of_token(t, type) ==
    IF t.ok THEN [ok |-> TRUE, index |-> t.index, object |-> [type |-> type]]
    ELSE Failed

\* the object json_expect_value fills in once json_expect_string yielded s
value_of_string(s) ==
    IF s.ok
    THEN [ok |-> TRUE, index |-> s.index,
          object |-> [type |-> "JSON_STRING", string |-> s.string]]
    ELSE Failed

\* the object json_expect_value fills in once json_expect_number yielded n
value_of_number(n) ==
    IF n.ok
    THEN [ok |-> TRUE, index |-> n.index,
          object |-> [type |-> "JSON_NUMBER", number |-> n.number]]
    ELSE Failed

\* the switch of json_expect_value on the character ch at index
expect_value_switch(text, index, ch, uninit) ==
    CASE ch = "{" -> json_expect_obj(text, index, uninit)
      [] ch = "[" -> json_expect_array(text, index, uninit)
      [] ch = "\"" -> value_of_string(json_expect_string(text, index))
      [] ch = "t" ->
            value_of_token(json_expect_token(text, index, << "t", "r", "u", "e" >>, 4),
                           "JSON_TRUE")
      [] ch = "f" ->
            value_of_token(
                json_expect_token(text, index, << "f", "a", "l", "s", "e" >>, 5),
                "JSON_FALSE")
      [] ch = "n" ->
            value_of_token(json_expect_token(text, index, << "n", "u", "l", "l" >>, 4),
                           "JSON_NULL")
      [] OTHER ->
            IF json_is_digit(ch) \/ ch = "-"
            THEN value_of_number(json_expect_number(text, index))
            ELSE Failed

\* [ok, index, object]
json_expect_value(text, index, uninit) ==
    expect_value_switch(text, index, At(text, index), uninit)

\* json_parse without the json_expect_token that follows the root
parse_end_lenient(text, r) ==
    IF ~r.ok THEN r ELSE [ok |-> TRUE, root |-> r.object]

\* json_parse once the root r is read: only whitespace may follow
parse_end(text, r) ==
    IF ~r.ok THEN r
    ELSE IF json_expect_token(text, json_next_token(text, r.index), << >>, 1).ok
    THEN [ok |-> TRUE, root |-> r.object]
    ELSE Failed

\* the switch of json_parse with a default that takes the text as loaded
parse_root_default_ok(text, index, ch, uninit) ==
    CASE ch = "{" -> parse_end(text, json_expect_obj(text, index, uninit))
      [] ch = "[" -> parse_end(text, json_expect_array(text, index, uninit))
      [] OTHER -> [ok |-> TRUE, root |-> NullObject]

\* the switch of json_parse on the first character ch that is no whitespace
parse_root(text, index, ch, uninit) ==
    CASE ch = "{" -> parse_end(text, json_expect_obj(text, index, uninit))
      [] ch = "[" -> parse_end(text, json_expect_array(text, index, uninit))
      [] ch = NUL -> [ok |-> TRUE, root |-> NullObject]
      [] OTHER -> Failed

\* the start of json_parse, at the first character that is no whitespace
parse_at(text, index, uninit) == parse_root(text, index, At(text, index), uninit)

\* json_parse(json, text): [ok, root], root NullObject for the empty text
json_parse(text, uninit) == parse_at(text, json_next_token(text, 0), uninit)

\* json_load(json, text): json_load_empty, then json_parse
json_load(text, uninit) == json_parse(text, uninit)

\* ------------------------------------------------- comparing two documents

\* same types, same values, same elements in order, same key sets with the
\* same children
RECURSIVE StructEq(_, _)
StructEq(x, y) ==
    /\ x.type = y.type
    /\ CASE x.type = "JSON_NUMBER" -> x.number = y.number
         [] x.type = "JSON_STRING" -> x.string = y.string
         [] x.type = "JSON_ARRAY" ->
               /\ x.vec.size = y.vec.size
               /\ \A i \in 1..x.vec.size : StructEq(x.vec.data[i], y.vec.data[i])
         [] x.type = "JSON_OBJECT" ->
               /\ ObjectKeys(x) = ObjectKeys(y)
               /\ \A k \in ObjectKeys(x) :
                     StructEq(json_get_object(x, k), json_get_object(y, k))
         [] OTHER -> TRUE

\* -------------------------------------------------------------- allocators
\* The allocators of a json_t, seen through what malloc and free are asked to
\* do.  A json_t is [cur_page, page_cap, used, tracked, cur_tracked,
\* tracked_cap] and the model adds: mallocs, the blocks malloc handed out, and
\* frees, those of them free got back; bad_free, set once free was given
\* something that is no live block; oob, set once a page pointer was stored
\* past the end of the page table; unloaded; first, the tracked slots taken
\* before the calls that the model follows; page_size, the size of the page
\* of each cell 0..cur_page; slice, what the last json_page_alloc returned, as
\* [page, offset, size, wild]; cell and blocks, the blocks of the
\* tracked heap and the block each cell of the table points at.  A cell of the
\* tracked table holds NULL, a pointer to a live block or a pointer to a block
\* that was freed.  The cells 0..cur_page
\* of the page table each hold a page of their own; those from page_cap on lie
\* outside the table.

JSON_PAGE_SIZE == 65536
JSON_INIT_PAGE_CAP == 8
JSON_INIT_TRACKED_CAP == 256

TPTR_NULL == "NULL"
TPTR_LIVE == "LIVE"
TPTR_FREED == "FREED"

\* the three blocks of json_load_empty: the two tables and the first page
json_load_empty ==
    [cur_page |-> 0, page_cap |-> JSON_INIT_PAGE_CAP, used |-> 0,
     tracked |-> [i \in 0..(JSON_INIT_TRACKED_CAP - 1) |-> TPTR_NULL],
     cur_tracked |-> 0, tracked_cap |-> JSON_INIT_TRACKED_CAP,
     cell |-> [i \in 0..(JSON_INIT_TRACKED_CAP - 1) |-> NULL], blocks |-> << >>,
     page_size |-> << JSON_PAGE_SIZE >>,
     slice |-> [page |-> 0, offset |-> 0, size |-> 0, wild |-> FALSE],
     mallocs |-> 3, frees |-> 0, bad_free |-> FALSE, oob |-> FALSE,
     unloaded |-> FALSE, first |-> 0]

\* json->pages[json->cur_page] = malloc(size) once cur_page was advanced
store_page(json, size) ==
    [json EXCEPT !.mallocs = @ + 1,
                 !.page_size = Append(@, size),
                 !.oob = @ \/ json.cur_page >= json.page_cap]

\* the slice at offset of the page that the cell page of the page table
\* names.  A cell from page_cap on lies outside the table: intact tells
\* whether it holds the page pointer stored there when it is read, and the
\* slice is wild when it does not.
page_slice(json, page, offset, size, intact) ==
    [json EXCEPT !.slice = [page |-> page, offset |-> offset, size |-> size,
                            wild |-> page >= json.page_cap /\ ~intact]]

\* json->pages[++json->cur_page] = malloc(size); ptr = json->pages[cur_page]
page_custom(json, size, intact) ==
    page_slice(store_page([json EXCEPT !.cur_page = @ + 1], size),
               json.cur_page + 1, 0, size, intact)

\* the branch of json_page_alloc that gives a request a page of its own
page_alloc_custom(json, size, intact) ==
    [store_page([page_custom(json, size, intact) EXCEPT !.cur_page = @ + 1],
                JSON_PAGE_SIZE)
        EXCEPT !.used = 0]

\* json_fat_realloc of a table: a new block, and the old one freed
fat_realloc(json) == [json EXCEPT !.mallocs = @ + 1, !.frees = @ + 1]

\* the page table once cur_page reached page_cap
pages_grown(json) ==
    fat_realloc([json EXCEPT !.page_cap = (@ * 2) % SizeMod])

\* the branch of json_page_alloc that starts a new page
page_alloc_new(json) ==
    [store_page(IF json.cur_page + 1 = json.page_cap
                THEN pages_grown([json EXCEPT !.cur_page = @ + 1])
                ELSE [json EXCEPT !.cur_page = @ + 1],
                JSON_PAGE_SIZE)
        EXCEPT !.used = 0]

\* ptr = json->pages[json->cur_page] + json->used; json->used += size
page_alloc_use(json, size, intact) ==
    [page_slice(json, json.cur_page, json.used, size, intact)
        EXCEPT !.used = @ + size]

json_page_alloc(json, size, intact) ==
    IF json.used + size > JSON_PAGE_SIZE
    THEN IF size >= JSON_PAGE_SIZE
         THEN page_alloc_custom(json, size, intact)
         ELSE page_alloc_use(page_alloc_new(json), size, intact)
    ELSE page_alloc_use(json, size, intact)

\* the tracked table once cur_tracked reached tracked_cap
tracked_grown(json) ==
    fat_realloc(
        [json EXCEPT
            !.tracked_cap = (@ * 2) % SizeMod,
            !.tracked = [i \in 0..(((json.tracked_cap * 2) % SizeMod) - 1) |->
                            IF i < json.tracked_cap THEN json.tracked[i]
                            ELSE TPTR_NULL],
            !.cell = [i \in 0..(((json.tracked_cap * 2) % SizeMod) - 1) |->
                         IF i < json.tracked_cap THEN json.cell[i] ELSE NULL]])

\* A block of the tracked heap is [index, size, bytes, live]: the two fields of
\* its json_tptr_t header, the size bytes after the header, and whether free
\* was called on it.  A block is named by its place in blocks, the order of
\* the calls of malloc; a cell of the table names a block, or is NULL.

\* a block fresh from JSON_MALLOC, its header set; malloc leaves in it what
\* the memory held, junk
tptr_malloc(index, size, junk) ==
    [index |-> index, size |-> size, bytes |-> [k \in 1..size |-> junk],
     live |-> TRUE]

\* tracked_store that keeps the table as it is when the slot holds a block
tracked_store_once(json, tptr) ==
    IF json.cell[tptr.index] # NULL
    THEN [json EXCEPT !.blocks = Append(@, tptr), !.mallocs = @ + 1]
    ELSE [json EXCEPT !.tracked[tptr.index] = TPTR_LIVE,
                      !.cell[tptr.index] = Len(json.blocks) + 1,
                      !.blocks = Append(@, tptr),
                      !.mallocs = @ + 1]

\* json->tracked[tptr->index] = tptr for the new block tptr
tracked_store(json, tptr) ==
    [json EXCEPT !.tracked[tptr.index] = TPTR_LIVE,
                 !.cell[tptr.index] = Len(json.blocks) + 1,
                 !.blocks = Append(@, tptr),
                 !.mallocs = @ + 1]

json_tracked_alloc(json, size, junk) ==
    tracked_store(
        IF json.cur_tracked + 1 = json.tracked_cap
        THEN tracked_grown([json EXCEPT !.cur_tracked = @ + 1])
        ELSE [json EXCEPT !.cur_tracked = @ + 1],
        tptr_malloc(json.cur_tracked, size, junk))

\* JSON_FREE(json->tracked[index])
free_tracked(json, index) ==
    IF json.tracked[index] = TPTR_LIVE
    THEN [json EXCEPT !.frees = @ + 1, !.blocks[json.cell[index]].live = FALSE]
    ELSE [json EXCEPT !.bad_free = TRUE]

\* json_tracked_free(json, ptr) for the block ptr of slot index
json_tracked_free(json, index) ==
    [free_tracked(json, index) EXCEPT !.tracked[index] = TPTR_NULL,
                                      !.cell[index] = NULL]

\* memcpy(new_tptr + 1, ptr, copy_size) with copy_size the smaller size
tptr_copy(new_tptr, old_tptr) ==
    [new_tptr EXCEPT
        !.bytes = [k \in 1..new_tptr.size |->
                      IF k <= old_tptr.size THEN old_tptr.bytes[k] ELSE @[k]]]

\* json_tracked_realloc(json, ptr, size) for the block ptr, which the cell ptr
\* names: the new block takes the index of the header of the old one
tracked_realloc_block(json, old_tptr, size, junk) ==
    tracked_store(free_tracked(json, old_tptr.index),
                  tptr_copy(tptr_malloc(old_tptr.index, size, junk), old_tptr))

\* json_tracked_realloc(json, ptr, size) for the block ptr of slot index
json_tracked_realloc(json, index, size, junk) ==
    tracked_realloc_block(json, json.blocks[json.cell[index]], size, junk)

\* the cells of the page table that json_unload reads inside the table
pages_inside(json) ==
    IF json.cur_page < json.page_cap THEN json.cur_page + 1 ELSE json.page_cap

\* the tracked blocks json_unload frees, and whether one of them is freed twice
tracked_live(json) ==
    Cardinality({i \in 0..json.cur_tracked : json.tracked[i] = TPTR_LIVE})
tracked_freed(json) ==
    \E i \in 0..json.cur_tracked : json.tracked[i] = TPTR_FREED

\* json_unload(json).  The cells json_unload reads outside the page table are
\* not the table's: intact tells whether they still hold the page pointers
\* stored there when they are read.
json_unload(json, intact) ==
    [json EXCEPT
        !.frees = @ + pages_inside(json)
                    + (IF intact THEN json.cur_page + 1 - pages_inside(json) ELSE 0)
                    + 1 + tracked_live(json) + 1,
        !.bad_free = @ \/ tracked_freed(json)
                       \/ (~intact /\ json.cur_page >= json.page_cap),
        !.unloaded = TRUE]

\* sizeof(json_object_t) and sizeof(json_vec_t) where a pointer has 8 bytes
SIZEOF_OBJECT == 16
SIZEOF_VEC == 32

\* what json_new_array(json, objects, 0) allocates
alloc_new_array(json) ==
    json_tracked_alloc(
        json_page_alloc(json_page_alloc(json, SIZEOF_OBJECT, TRUE),
                        SIZEOF_VEC, TRUE),
        0, 0)

\* a json_t fresh from json_load_empty after n calls of alloc_new_array, for
\* an n that leaves the tracked table and the first page room: the structs lie
\* on the first page and the blocks take the first n tracked slots
alloc_new_arrays(n) ==
    [json_load_empty EXCEPT
        !.used = n * (SIZEOF_OBJECT + SIZEOF_VEC),
        !.slice = IF n = 0 THEN @
                  ELSE [page |-> 0,
                        offset |-> n * (SIZEOF_OBJECT + SIZEOF_VEC) - SIZEOF_VEC,
                        size |-> SIZEOF_VEC, wild |-> FALSE],
        !.tracked = [i \in 0..(JSON_INIT_TRACKED_CAP - 1) |->
                        IF i < n THEN TPTR_LIVE ELSE TPTR_NULL],
        !.cell = [i \in 0..(JSON_INIT_TRACKED_CAP - 1) |->
                     IF i < n THEN i + 1 ELSE NULL],
        !.blocks = [b \in 1..n |-> tptr_malloc(b - 1, 0, 0)],
        !.cur_tracked = n,
        !.mallocs = @ + n]

\* ------------------------------------------------------------------- state

VARIABLES
    hmap,    \* the json_hmap_t of one JSON object
    ret,     \* what the last call returned
    hung,    \* a call entered a probe loop that never exits
    last,    \* per key, the object of its latest put when no pop came after it
    put_order,  \* the keys put and not popped since, in the order of their puts
    distinct,   \* no key was put while it was put and not popped
    vec,     \* a json_vec_t on its own
    n_push,  \* the calls of json_vec_push on vec
    n_pop,   \* the calls of json_vec_pop on vec
    vec_over,  \* json_vec_push wrote a cell outside the block of vec
    root,    \* the root of a document built through the json_new_* calls
    ser,     \* what json_serialize made of root, once it was called
    load,    \* what json_load made of the text of ser, once it was called
    typed,   \* a text typed token by token, to be handed to the parser
    n_tok,   \* the tokens typed
    parsed,  \* what the parser made of typed, once it was called
    string,  \* a C string handed to json_serialize_string
    got,     \* how the last json_get_* call ended, once one was made
    heap     \* the allocators of a json_t and the blocks malloc handed out

hvars == << hmap, ret, hung, last, put_order, distinct >>
vvars == << vec, n_push, n_pop, vec_over >>
svars == << root, ser, load >>
pvars == << typed, n_tok, parsed, string >>
xvars == << typed, n_tok, parsed, string, got, heap >>
vars == << hmap, ret, hung, last, put_order, distinct,
           vec, n_push, n_pop, vec_over, root, ser, load,
           typed, n_tok, parsed, string, got, heap >>

AllKeys ==
    {<<"a">>, <<"b">>, <<"c">>, <<"d">>, <<"e">>, <<"a", "2">>, <<"z">>,
     <<"f">>, <<"g">>, <<"h">>, <<"i">>}
\* keys whose hashes differ from each other and from 0
Keys == {<<"a">>, <<"b">>, <<"c">>}
GrowKeys == {<<"a">>, <<"b">>, <<"c">>, <<"d">>, <<"e">>}
ZeroKeys == {<<"a">>, <<"z">>}
\* more keys than the key-order list holds before it grows
ShrinkKeys ==
    {<<"a">>, <<"b">>, <<"c">>, <<"d">>, <<"e">>, <<"f">>, <<"g">>, <<"h">>, <<"i">>}

\* an object fresh from json_new_object
InitObject ==
    /\ hmap = json_hmap_make(JSON_HMAP_INIT_CAP)
    /\ ret = NULL
    /\ hung = FALSE
    /\ last = [k \in AllKeys |-> NULL]
    /\ put_order = << >>
    /\ distinct = TRUE

\* a vector fresh from json_vec_make(init_cap)
InitVec(init_cap) ==
    /\ vec = json_vec_make(init_cap)
    /\ n_push = 0
    /\ n_pop = 0
    /\ vec_over = FALSE

\* a document with the root object, not serialized yet
InitDoc(object) ==
    /\ root = object
    /\ ser = [done |-> FALSE]
    /\ load = [done |-> FALSE]

\* no text typed yet, and the string seed to serialize
InitText(seed) ==
    /\ typed = seed
    /\ n_tok = 0
    /\ parsed = [done |-> FALSE]
    /\ string = << >>

\* no json_get_* call made yet
InitGot == got = [done |-> FALSE]

\* a json_t fresh from json_load_empty
InitHeap == heap = json_load_empty

InitRest == InitText(<< >>) /\ InitGot /\ InitHeap

Init ==
    InitObject /\ InitVec(JSON_VEC_INIT_CAP) /\ InitDoc(NullObject) /\ InitRest

\* json_put(json, object, key, child)
json_put(key, child, uninit) ==
    /\ ~hung
    /\ LET h == json_hmap_put(hmap, key, child, uninit)
       IN  IF IsHung(h)
           THEN hung' = TRUE /\ UNCHANGED hmap
           ELSE hmap' = h /\ UNCHANGED hung
    /\ ret' = NULL
    /\ last' = [last EXCEPT ![key] = child]
    /\ put_order' = IF last[key] = NULL THEN Append(put_order, key) ELSE put_order
    /\ distinct' = (distinct /\ last[key] = NULL)
    /\ UNCHANGED << vvars, svars, xvars >>

Pop(key, order, lhs_first, backward, junk) ==
    /\ ~hung
    /\ LET r == json_hmap_del(hmap, key, order, lhs_first, backward, junk)
       IN  /\ IF IsHung(r.hmap)
              THEN hung' = TRUE /\ UNCHANGED hmap
              ELSE hmap' = r.hmap /\ UNCHANGED hung
           /\ ret' = r.ret
    /\ last' = [last EXCEPT ![key] = NULL]
    /\ put_order' = SelectSeq(put_order, LAMBDA k : k # key)
    /\ UNCHANGED << distinct, vvars, svars, xvars >>

\* json_pop(json, object, key)
json_pop(key, lhs_first, junk) == Pop(key, FALSE, lhs_first, FALSE, junk)

\* json_pop_ordered(json, object, key)
json_pop_ordered(key, backward, junk) == Pop(key, TRUE, FALSE, backward, junk)

\* the keys of the key-order list, as a set
VecKeys == {hmap.vec.data[i] : i \in 1..Len(hmap.vec.data)}

Pointers == Objects \cup {NULL}

\* any calls, on keys whose hashes differ from each other and from 0
Next ==
    \/ /\ hmap.vec.size < MaxVecSize
       /\ \E key \in Keys, child \in Objects, uninit \in UninitSteps :
             json_put(key, child, uninit)
    \/ \E key \in Keys, lhs_first \in BOOLEAN, junk \in Pointers :
          json_pop(key, lhs_first, junk)
    \/ \E key \in Keys, backward \in BOOLEAN, junk \in Pointers :
          json_pop_ordered(key, backward, junk)

Spec == Init /\ [][Next]_vars

\* the same calls in a build where the read of the uninitialised node.steps
\* yields 0, memcpy copies ascending and json_vec_del evaluates the right side
\* of its assignment first
NextBenign ==
    \/ /\ hmap.vec.size < MaxVecSize
       /\ \E key \in Keys, child \in Objects : json_put(key, child, 0)
    \/ \E key \in Keys : json_pop(key, FALSE, NULL)
    \/ \E key \in Keys : json_pop_ordered(key, FALSE, NULL)

SpecBenign == Init /\ [][NextBenign]_vars

\* size has not wrapped further below 0 than the model follows it
SizeInBounds == hmap.size <= hmap.cap \/ SizeMod - hmap.size < MaxUnder

\* any calls, one of the keys with a hash of 0
NextZero ==
    \/ /\ hmap.vec.size < MaxVecSize
       /\ \E key \in ZeroKeys, child \in Objects, uninit \in UninitSteps :
             json_put(key, child, uninit)
    \/ /\ SizeInBounds
       /\ \E key \in ZeroKeys, lhs_first \in BOOLEAN, junk \in Pointers :
             json_pop(key, lhs_first, junk)
    \/ /\ SizeInBounds
       /\ \E key \in ZeroKeys, backward \in BOOLEAN, junk \in Pointers :
             json_pop_ordered(key, backward, junk)

SpecZero == Init /\ [][NextZero]_vars

\* a client that fills an object with more keys than half the initial table
\* holds, in a fixed order, and pops the first or the last key of the list
NextGrow ==
    \/ \E key \in GrowKeys \ VecKeys, uninit \in UninitSteps :
          /\ \A k2 \in GrowKeys \ VecKeys : json_hash_str(key) <= json_hash_str(k2)
          /\ json_put(key, 1, uninit)
    \/ /\ hmap.vec.size > 0
       /\ \E key \in {hmap.vec.data[1], hmap.vec.data[Len(hmap.vec.data)]},
             lhs_first \in BOOLEAN, junk \in Pointers : json_pop(key, lhs_first, junk)

SpecGrow == Init /\ [][NextGrow]_vars

\* a client that fills an object with so many keys that the key-order list
\* grows, in a fixed order, and pops the last key of the list
NextShrink ==
    \/ \E key \in ShrinkKeys \ VecKeys, uninit \in UninitSteps :
          /\ \A k2 \in ShrinkKeys \ VecKeys : json_hash_str(key) <= json_hash_str(k2)
          /\ json_put(key, 1, uninit)
    \/ /\ hmap.vec.size > 0
       /\ \E lhs_first \in BOOLEAN, junk \in Pointers :
             json_pop(hmap.vec.data[Len(hmap.vec.data)], lhs_first, junk)

SpecShrink == Init /\ [][NextShrink]_vars

\* ------------------------------------------------------ a vector on its own

\* json_vec_push(json, vec, item).  A block of capacity 0 stays one of capacity
\* 0 when json_vec_alloc_one doubles it: the cell written lies outside it, and
\* nothing is known of the heap from then on.
VecPush(item) ==
    /\ ~vec_over
    /\ n_pop = 0
    /\ n_push < MaxPush
    /\ vec' = json_vec_push(vec, item)
    /\ vec_over' = (json_vec_alloc_one(vec).cap < vec.size + 1)
    /\ n_push' = n_push + 1
    /\ UNCHANGED << n_pop, hvars, svars, xvars >>

\* json_vec_pop(json, vec)
VecPop ==
    /\ ~vec_over
    /\ n_pop < n_push
    /\ vec' = json_vec_pop(vec)
    /\ n_pop' = n_pop + 1
    /\ UNCHANGED << n_push, vec_over, hvars, svars, xvars >>

InitVecAny ==
    /\ InitObject
    /\ \E init_cap \in 0..MaxMinCap : InitVec(init_cap)
    /\ InitDoc(NullObject)
    /\ InitRest

\* N pushes, then pops
NextVec == VecPush(1) \/ VecPop

SpecVec == InitVecAny /\ [][NextVec]_vars

\* ------------------------------------------- a document, serialized and loaded

Numbers == {12 * NumberScale, -(NumberScale + NumberScale \div 2)}
Strings == {<< >>, << "a", "\"" >>, << ":", " ", ",", "\n" >>}
DocKeys == {<< "a" >>, << "b" >>}

Leaves ==
    {json_new_null, json_new_bool(TRUE), json_new_bool(FALSE)}
        \cup {json_new_number(n) : n \in Numbers}
        \cup {json_new_string(s) : s \in Strings}

SmallLeaves ==
    {json_new_bool(FALSE), json_new_number(-(NumberScale + NumberScale \div 2)),
     json_new_string(<< ":", " ", ",", "\n" >>)}

SeqsUpTo(S, n) == UNION {[1..k -> S] : k \in 0..n}

\* the arrays json_new_array makes of up to MaxElems objects of S
ArraysOf(S) == {json_new_array(objects) : objects \in SeqsUpTo(S, MaxElems)}

\* the objects up to MaxElems calls of json_put make of a new object
ObjectsOf(S, uninit) ==
    {put_all(json_new_object, pairs, 1, uninit) :
        pairs \in SeqsUpTo(DocKeys \X S, MaxElems)}

\* the documents of the model: a value, a container of values, or a container
\* of one container
Documents(uninit) ==
    LET inner == ArraysOf(SmallLeaves) \cup ObjectsOf(SmallLeaves, uninit)
    IN  Leaves \cup ArraysOf(Leaves) \cup ObjectsOf(SmallLeaves, uninit)
            \cup {json_new_array(<< x >>) : x \in inner}
            \cup {put_all(json_new_object, << << k, x >> >>, 1, uninit) :
                     k \in DocKeys, x \in inner}

InitSer ==
    /\ InitObject
    /\ InitVec(JSON_VEC_INIT_CAP)
    /\ \E uninit \in UninitSteps : \E object \in Documents(uninit) : InitDoc(object)
    /\ InitRest

\* json_serialize(root, mini, indent, &out_len)
Serialize(mini, indent) ==
    /\ ~ser.done
    /\ LET r == json_serialize(root, mini, indent)
       IN  ser' = [done |-> TRUE, mini |-> mini, str |-> r.str,
                   out_len |-> r.out_len, over |-> r.over, past |-> r.past,
                   fault |-> r.fault]
    /\ UNCHANGED << root, load, hvars, vvars, xvars >>

\* json_load(&json, text) on the text json_serialize returned
Load(uninit) ==
    /\ ser.done /\ ~ser.over /\ ~ser.fault
    /\ ~load.done
    /\ LET r == json_load(ser.str, uninit)
       IN  load' = IF r.ok THEN [done |-> TRUE, ok |-> TRUE, root |-> r.root]
                   ELSE [done |-> TRUE, ok |-> FALSE]
    /\ UNCHANGED << root, ser, hvars, vvars, xvars >>

NextSer ==
    \/ \E mini \in BOOLEAN, indent \in 0..MaxIndent : Serialize(mini, indent)
    \/ \E uninit \in UninitSteps : Load(uninit)

SpecSer == InitSer /\ [][NextSer]_vars

\* ------------------------------------------------- claims on the hash map

\* the slots of the table that hold a node
Occupied(h) == {i \in DOMAIN h.nodes : h.nodes[i].hash # 0}
\* the slots that hold a node of key
SlotsOf(h, key) == {i \in Occupied(h) : h.nodes[i].hash = json_hash_str(key)}
\* how often x occurs in seq
Count(seq, x) == Cardinality({i \in 1..Len(seq) : seq[i] = x})
\* seq without the entries x
Without(seq, x) == SelectSeq(seq, LAMBDA y : y # x)
\* a step that is a pop, of either kind, of key
IsPop(key) ==
    \E flag \in BOOLEAN, junk \in Pointers :
        json_pop(key, flag, junk) \/ json_pop_ordered(key, flag, junk)
IsPut(key, child) == \E uninit \in UninitSteps : json_put(key, child, uninit)

\* C1: with keys of pairwise distinct non-zero hashes, after every step get(k)
\* is the object of the latest put of k when no pop of k came after it and
\* NULL otherwise, and a pop of a key that is put returns that object.
C1_GetReturnsLatestPut ==
    [][/\ \A k \in Keys : json_hmap_get(hmap', k) = last'[k]
       /\ \A k \in Keys : IsPop(k) /\ last[k] # NULL => ret' = last[k]]_vars

\* C2: after every put and pop the capacity is at least twice the number of
\* keys the table holds.
C2_LoadFactor == hmap.cap >= 2 * Cardinality(Occupied(hmap))

\* C3: the key-order list holds each key of the table exactly once and no key
\* that the table does not hold, and get finds an object for each of its keys.
C3_KeyListMatchesTable ==
    /\ \A k \in Keys :
          Count(hmap.vec.data, k) = IF SlotsOf(hmap, k) # {} THEN 1 ELSE 0
    /\ \A k \in VecKeys : json_hmap_get(hmap, k) # NULL

\* C4: when no key was put while it was put and not popped, the key-order list
\* is the keys put and not popped since, in the order of their puts.
C4_InsertionOrderKept == distinct => hmap.vec.data = put_order

\* C5: json_pop_ordered of a key that is put takes the key out of the key-order
\* list and leaves the other keys in their order.
C5_OrderedPopKeepsOrder ==
    [][\A k \in Keys, backward \in BOOLEAN, junk \in Pointers :
          json_pop_ordered(k, backward, junk) /\ last[k] # NULL
          => hmap'.vec.data = Without(hmap.vec.data, k)]_vars

\* C6: a pop of a key that is not put returns NULL and leaves the map as it was.
C6_PopAbsentChangesNothing ==
    [][\A k \in ZeroKeys : IsPop(k) /\ last[k] = NULL
          => ret' = NULL /\ hmap' = hmap]_vars

\* C7: a put of a key that is put replaces its object: get returns the new
\* object, one slot holds the key, size and capacity are as before.
C7_PutUpdatesInPlace ==
    [][\A k \in Keys, child \in Objects : IsPut(k, child) /\ last[k] # NULL
          => /\ json_hmap_get(hmap', k) = child
             /\ Cardinality(SlotsOf(hmap', k)) = 1
             /\ hmap'.size = hmap.size
             /\ hmap'.cap = hmap.cap]_vars

\* ------------------------------------------------------ claims on the vector

C8_RoundTrip ==
    load.done /\ ser.mini => load.ok /\ StructEq(load.root, root)

\* the text outside the string literals, each literal shrunk to one quote
RECURSIVE Skeleton(_, _, _)
Skeleton(text, i, in_str) ==
    IF i > Len(text) THEN << >>
    ELSE IF in_str
    THEN IF text[i] = "\\" THEN Skeleton(text, i + 2, TRUE)
         ELSE IF text[i] = "\"" THEN << "\"" >> \o Skeleton(text, i + 1, FALSE)
         ELSE Skeleton(text, i + 1, TRUE)
    ELSE IF text[i] = "\"" THEN Skeleton(text, i + 1, TRUE)
    ELSE << text[i] >> \o Skeleton(text, i + 1, FALSE)

\* the sum of the entries of seq from i on
RECURSIVE Sum(_, _)
Sum(seq, i) == IF i > Len(seq) THEN 0 ELSE seq[i] + Sum(seq, i + 1)

\* the fields of all objects of a document
RECURSIVE FieldCount(_)
FieldCount(x) ==
    CASE x.type = "JSON_ARRAY" ->
            Sum([i \in 1..x.vec.size |-> FieldCount(x.vec.data[i])], 1)
      [] x.type = "JSON_OBJECT" ->
            x.hmap.vec.size
                + Sum([i \in 1..x.hmap.vec.size |->
                         FieldCount(json_get_object(x, x.hmap.vec.data[i]))], 1)
      [] OTHER -> 0

\* the places of all containers of a document where two entries meet
RECURSIVE JoinCount(_)
JoinCount(x) ==
    CASE x.type = "JSON_ARRAY" ->
            (IF x.vec.size > 0 THEN x.vec.size - 1 ELSE 0)
                + Sum([i \in 1..x.vec.size |-> JoinCount(x.vec.data[i])], 1)
      [] x.type = "JSON_OBJECT" ->
            (IF x.hmap.vec.size > 0 THEN x.hmap.vec.size - 1 ELSE 0)
                + Sum([i \in 1..x.hmap.vec.size |->
                         JoinCount(json_get_object(x, x.hmap.vec.data[i]))], 1)
      [] OTHER -> 0

\* C10: outside its string literals a mini serialization has no space and no
\* line break before the final line break, and the object that "{}" loads
\* serializes to "{}" and a line break; a pretty serialization has a space
\* after each ':' and a line break after each ','; in both modes there is one
\* ':' per field and one ',' between two neighbours.
C10_Separators ==
    ser.done =>
        LET sk == Skeleton(ser.str, 1, FALSE)
            n == Len(sk)
        IN  /\ Cardinality({i \in 1..n : sk[i] = ":"}) = FieldCount(root)
            /\ Cardinality({i \in 1..n : sk[i] = ","}) = JoinCount(root)
            /\ ser.mini =>
                  /\ n >= 1 /\ sk[n] = "\n"
                  /\ \A i \in 1..(n - 1) : sk[i] \notin {" ", "\n", "\r", "\t"}
                  /\ root = json_load(<< "{", "}" >>, 0).root
                        => ser.str = << "{", "}", "\n" >>
            /\ ~ser.mini =>
                  \A i \in 1..(n - 1) :
                      /\ sk[i] = ":" => sk[i + 1] = " "
                      /\ sk[i] = "," => sk[i + 1] = "\n"

\* a mini serialization of an object of two fields, one of them a string with
\* a colon, a space, a comma and a line break
C10_MiniObjectSerialized ==
    /\ ser.done /\ ser.mini
    /\ root.type = "JSON_OBJECT"
    /\ root.hmap.vec.data = << << "a" >>, << "b" >> >>
    /\ json_get_object(root, << "b" >>) = json_new_string(<< ":", " ", ",", "\n" >>)

\* C11: in both modes the text json_serialize returns ends with one line
\* break: its last character is a line break and the one before it is none.
C11_OneTrailingLineBreak ==
    ser.done /\ ~ser.fault =>
        /\ Len(ser.str) >= 2
        /\ ser.str[Len(ser.str)] = "\n"
        /\ ser.str[Len(ser.str) - 1] # "\n"

\* a pretty serialization of an array of two elements, with line breaks inside
C11_PrettyArraySerialized ==
    /\ ser.done /\ ~ser.mini /\ ~ser.fault
    /\ root.type = "JSON_ARRAY" /\ root.vec.size = 2
    /\ Cardinality({i \in 1..Len(ser.str) : ser.str[i] = "\n"}) >= 4

\* ------------------------------------------------ texts handed to json_load

\* the most tokens typed after the start of a text
MaxTokens == 4

\* the tokens of a text: brackets, separators, a string, a number, a literal
\* and a run of the four whitespace characters
Tokens ==
    { << "{" >>, << "}" >>, << "[" >>, << "]" >>, << "," >>, << ":" >>,
      << "\"", "a", "\"" >>, << "1" >>, << "n", "u", "l", "l" >>,
      << " ", "\t", "\r", "\n" >> }

\* how a text starts: with nothing, inside an array or inside an object
Seeds ==
    { << >>, << "[", "1", "," >>, << "{", "\"", "a", "\"", ":", "1", "," >> }

InitParse ==
    /\ InitObject
    /\ InitVec(JSON_VEC_INIT_CAP)
    /\ InitDoc(NullObject)
    /\ \E seed \in Seeds : InitText(seed)
    /\ InitGot
    /\ InitHeap

\* the client writes one more token of the text
Type(token) ==
    /\ ~parsed.done
    /\ n_tok < MaxTokens
    /\ typed' = typed \o token
    /\ n_tok' = n_tok + 1
    /\ UNCHANGED << parsed, string, got, heap, hvars, vvars, svars >>

\* what a caller of json_load sees: the root, unless the call exits
loaded(r) ==
    IF r.ok THEN [done |-> TRUE, ok |-> TRUE, root |-> r.root]
    ELSE [done |-> TRUE, ok |-> FALSE]

\* json_load(&json, text) on the text typed
LoadTyped(uninit) ==
    /\ ~parsed.done
    /\ parsed' = loaded(json_load(typed, uninit))
    /\ UNCHANGED << typed, n_tok, string, got, heap, hvars, vvars, svars >>

NextParse ==
    \/ \E token \in Tokens : Type(token)
    \/ \E uninit \in UninitSteps : LoadTyped(uninit)

SpecParse == InitParse /\ [][NextParse]_vars

\* --------------------------------------------------- the grammar of a text
\* value := object | array | string | number | null, object := '{' ( string ':' value
\* (',' string ':' value)* )? '}', array := '[' ( value (',' value)* )? ']',
\* over the characters of Tokens; each operator yields the index after what it
\* matched from index i on, -1 when nothing matches.

GrammarWs(ch) == ch \in {" ", "\t", "\r", "\n"}

RECURSIVE SkipWs(_, _)
SkipWs(text, i) == IF GrammarWs(At(text, i)) THEN SkipWs(text, i + 1) ELSE i

\* a string literal without escapes, from inside it
RECURSIVE GrammarStringEnd(_, _)
GrammarStringEnd(text, i) ==
    IF At(text, i) = "\"" THEN i + 1
    ELSE IF At(text, i) \in {NUL, "\n", "\\"} THEN -1
    ELSE GrammarStringEnd(text, i + 1)

GrammarString(text, i) ==
    IF At(text, i) = "\"" THEN GrammarStringEnd(text, i + 1) ELSE -1

GrammarDigit(ch) == ch \in {"0", "1", "2", "3", "4", "5", "6", "7", "8", "9"}

RECURSIVE GrammarDigits(_, _)
GrammarDigits(text, i) ==
    IF GrammarDigit(At(text, i)) THEN GrammarDigits(text, i + 1) ELSE i

GrammarNumber(text, i) ==
    IF GrammarDigit(At(text, i)) THEN GrammarDigits(text, i + 1) ELSE -1

\* the literal lit
GrammarLiteral(text, i, lit) ==
    IF \A k \in 1..Len(lit) : At(text, i + k - 1) = lit[k] THEN i + Len(lit)
    ELSE -1

RECURSIVE GrammarValue(_, _)
RECURSIVE GrammarElems(_, _)
RECURSIVE GrammarMoreElems(_, _)
RECURSIVE GrammarElemSep(_, _)
RECURSIVE GrammarMembers(_, _)
RECURSIVE GrammarColon(_, _)
RECURSIVE GrammarMemberValue(_, _)
RECURSIVE GrammarMoreMembers(_, _)
RECURSIVE GrammarMemberSep(_, _)

\* an array from the first token after '[' on
GrammarArray(text, i) ==
    IF At(text, i) = "]" THEN i + 1 ELSE GrammarElems(text, i)

\* an object from the first token after '{' on
GrammarObject(text, i) ==
    IF At(text, i) = "}" THEN i + 1 ELSE GrammarMembers(text, i)

GrammarValue(text, i) ==
    CASE At(text, i) = "{" -> GrammarObject(text, SkipWs(text, i + 1))
      [] At(text, i) = "[" -> GrammarArray(text, SkipWs(text, i + 1))
      [] At(text, i) = "\"" -> GrammarString(text, i)
      [] At(text, i) = "n" -> GrammarLiteral(text, i, << "n", "u", "l", "l" >>)
      [] OTHER -> GrammarNumber(text, i)

\* value (',' value)* ']'
GrammarElems(text, i) == GrammarMoreElems(text, GrammarValue(text, i))

GrammarMoreElems(text, v) ==
    IF v < 0 THEN -1 ELSE GrammarElemSep(text, SkipWs(text, v))

GrammarElemSep(text, i) ==
    IF At(text, i) = "]" THEN i + 1
    ELSE IF At(text, i) = "," THEN GrammarElems(text, SkipWs(text, i + 1))
    ELSE -1

\* string ':' value (',' string ':' value)* '}'
GrammarMembers(text, i) == GrammarColon(text, GrammarString(text, i))

GrammarColon(text, s) ==
    IF s < 0 THEN -1 ELSE GrammarMemberValue(text, SkipWs(text, s))

GrammarMemberValue(text, i) ==
    IF At(text, i) # ":" THEN -1
    ELSE GrammarMoreMembers(text, GrammarValue(text, SkipWs(text, i + 1)))

GrammarMoreMembers(text, v) ==
    IF v < 0 THEN -1 ELSE GrammarMemberSep(text, SkipWs(text, v))

GrammarMemberSep(text, i) ==
    IF At(text, i) = "}" THEN i + 1
    ELSE IF At(text, i) = "," THEN GrammarMembers(text, SkipWs(text, i + 1))
    ELSE -1

\* TRUE for a text whose first token opens an object or an array
IsContainerText(text) == At(text, SkipWs(text, 0)) \in {"{", "["}

\* the index after the root object or array of a text, -1 when it has none
GrammarRootEnd(text) ==
    IF IsContainerText(text) THEN GrammarValue(text, SkipWs(text, 0)) ELSE -1

\* TRUE when only whitespace lies between index e and the end of the text
OnlyWsFrom(text, e) == \A j \in (e + 1)..Len(text) : GrammarWs(text[j])

\* a text that is an object or an array, whitespace around it
GrammarDocument(text) ==
    GrammarRootEnd(text) >= 0 /\ OnlyWsFrom(text, GrammarRootEnd(text))

\* ------------------------------------------------------ claims on json_load

\* C12: a text with a complete root object or array loads exactly when only
\* whitespace follows the root; anything else after it is the parse error.
C12_TrailingContentRejected ==
    parsed.done /\ GrammarRootEnd(typed) >= 0
        => (parsed.ok <=> OnlyWsFrom(typed, GrammarRootEnd(typed)))

\* a text was loaded that has a token after its complete root and whitespace
C12_TrailingTokenLoaded ==
    /\ parsed.done
    /\ typed = << "[", "1", ",", "1", "]", " ", "\t", "\r", "\n", "}" >>

\* C13: a text that starts an object or an array loads exactly when it
\* matches the grammar of objects and arrays, whitespace between the tokens.
C13_AcceptsExactlyGrammar ==
    parsed.done /\ IsContainerText(typed)
        => (parsed.ok <=> GrammarDocument(typed))

\* an object of two members was loaded
C13_TwoMembersLoaded ==
    /\ parsed.done /\ parsed.ok
    /\ typed = << "{", "\"", "a", "\"", ":", "1", ",",
                  "\"", "a", "\"", ":", "1", "}" >>

\* ------------------------------------------- strings handed to the lexer

\* the characters typed after the opening quote of a string literal: the
\* quote, the backslash, the letters of the escapes, 'u', a letter that is no
\* escape and a raw line feed
LexChars == {"\"", "\\", "/", "b", "f", "n", "r", "t", "u", "a", "\n"}

InitLex ==
    /\ InitObject
    /\ InitVec(JSON_VEC_INIT_CAP)
    /\ InitDoc(NullObject)
    /\ InitText(<< "\"" >>)
    /\ InitGot
    /\ InitHeap

\* what a caller of json_expect_string sees: the string, unless the call exits
lexed(r) ==
    IF r.ok
    THEN [done |-> TRUE, ok |-> TRUE, index |-> r.index,
          string |-> r.string, length |-> r.length]
    ELSE [done |-> TRUE, ok |-> FALSE]

\* json_expect_string(&ctx) at the start of the text typed
ExpectString ==
    /\ ~parsed.done
    /\ typed # << >>
    /\ parsed' = lexed(json_expect_string(typed, 0))
    /\ UNCHANGED << typed, n_tok, string, got, heap, hvars, vvars, svars >>

NextLex ==
    \/ \E ch \in LexChars : Type(<< ch >>)
    \/ ExpectString

SpecLex == InitLex /\ [][NextLex]_vars

\* the characters of the strings serialized: the eight characters with an
\* escape, a letter that is the letter of an escape and one that is none
EscapeChars == {"\"", "\\", "/", BS, "\f", "\n", "\r", "\t", "n", "a"}

\* a C string of up to MaxTokens characters, not serialized yet
InitEscape ==
    /\ InitObject
    /\ InitVec(JSON_VEC_INIT_CAP)
    /\ InitDoc(NullObject)
    /\ typed = << >>
    /\ n_tok = 0
    /\ parsed = [done |-> FALSE]
    /\ string \in SeqsUpTo(EscapeChars, MaxTokens)
    /\ InitGot
    /\ InitHeap

\* json_serialize_string(&ser_ctx, string) into an empty string builder
SerializeString ==
    /\ typed = << >>
    /\ typed' = json_serialize_string(
                    [stringy |-> json_stringy_make, level |-> 0, indent |-> 0,
                     nlwidth |-> nlwidth(TRUE), mini |-> TRUE, fault |-> FALSE],
                    string).stringy.str
    /\ UNCHANGED << n_tok, parsed, string, got, heap, hvars, vvars, svars >>

NextEscape == SerializeString \/ ExpectString

SpecEscape == InitEscape /\ [][NextEscape]_vars

\* how the lexing of a string literal ends, from index i inside it on: with
\* the closing quote, or with one of the three errors
RECURSIVE StringFate(_, _)
StringFate(text, i) ==
    CASE At(text, i) = "\"" -> "closed"
      [] At(text, i) = NUL -> "end of input"
      [] At(text, i) = "\n" -> "line feed"
      [] At(text, i) = "\\" ->
            IF At(text, i + 1) \in {"\"", "\\", "/", "b", "f", "n", "r", "t"}
            THEN StringFate(text, i + 2)
            ELSE "escape"
      [] OTHER -> StringFate(text, i + 1)

\* C14: a string literal in which a backslash is followed by 'u' or by a
\* character that is no letter of an escape, or that has a raw line feed or
\* the end of the input before its closing quote, ends in the parse error: no
\* string is produced.
C14_BadStringRejected ==
    parsed.done /\ StringFate(typed, 1) \in {"escape", "line feed", "end of input"}
        => ~parsed.ok

\* the lexer was called on a literal with the escape \u after a letter
C14_UnicodeEscapeLexed ==
    /\ parsed.done
    /\ typed = << "\"", "a", "\\", "u", "\"" >>

\* C15: the literal json_serialize_string writes for a string is read back by
\* json_expect_string as that string, with its length, up to the end of the
\* literal.
C15_EscapeRoundTrip ==
    parsed.done
        => /\ parsed.ok
           /\ parsed.string = string
           /\ parsed.length = Len(string)
           /\ parsed.index = Len(typed)

\* a string of a quote, a backslash, a line feed and a backspace was
\* serialized and read back
C15_EscapedStringRead ==
    /\ parsed.done
    /\ string = << "\"", "\\", "\n", BS >>
    /\ typed = << "\"", "\\", "\"", "\\", "\\", "\\", "n", "\\", "b", "\"" >>

\* ------------------------------------------------------- the json_get_* calls
\* How a call ends: [end |-> "value", value], [end |-> "error"] when
\* JSON_ERROR reports the cast and exits, or what reading object->type through
\* a NULL object makes of the call.  ndebug: the build defines NDEBUG, which
\* empties JSON_ASSERT.

\* what the read of object->type through NULL can make of a call
NullReads == {"crash", "error", "value"}

\* the members a caller can read of an object of the wrong type are junk
Reinterpreted == [end |-> "value", value |-> "junk"]

\* JSON_ASSERT_PROPER_CAST(json_type), then value; types holds json_type
proper_cast(object, types, value, ndebug, null_read) ==
    IF object = NullObject
    THEN IF null_read = "value" THEN Reinterpreted ELSE [end |-> null_read]
    ELSE IF object.type \in types THEN [end |-> "value", value |-> value]
    ELSE IF ndebug THEN Reinterpreted
    ELSE [end |-> "error"]

json_to_array(object, ndebug, null_read) ==
    proper_cast(object, {"JSON_ARRAY"},
                IF object.type = "JSON_ARRAY" THEN object.vec.data ELSE << >>,
                ndebug, null_read)

json_to_string(object, ndebug, null_read) ==
    proper_cast(object, {"JSON_STRING"},
                IF object.type = "JSON_STRING" THEN object.string ELSE << >>,
                ndebug, null_read)

json_to_number(object, ndebug, null_read) ==
    proper_cast(object, {"JSON_NUMBER"},
                IF object.type = "JSON_NUMBER" THEN object.number ELSE 0,
                ndebug, null_read)

\* with NDEBUG the comparison object->type == JSON_TRUE is all that is left
json_to_bool(object, ndebug, null_read) ==
    IF object # NullObject /\ ndebug
    THEN [end |-> "value", value |-> object.type = "JSON_TRUE"]
    ELSE proper_cast(object, {"JSON_TRUE", "JSON_FALSE"},
                     object.type = "JSON_TRUE", ndebug, null_read)

json_get_array(object, key, ndebug, null_read) ==
    json_to_array(json_get_object(object, key), ndebug, null_read)

json_get_string(object, key, ndebug, null_read) ==
    json_to_string(json_get_object(object, key), ndebug, null_read)

json_get_number(object, key, ndebug, null_read) ==
    json_to_number(json_get_object(object, key), ndebug, null_read)

json_get_bool(object, key, ndebug, null_read) ==
    json_to_bool(json_get_object(object, key), ndebug, null_read)

\* the keys asked for: those of the documents and one that none of them has
GetKeys == DocKeys \cup {<< "c" >>}

\* the types a call returns a value for
Expected ==
    [json_get_array |-> {"JSON_ARRAY"}, json_get_string |-> {"JSON_STRING"},
     json_get_number |-> {"JSON_NUMBER"},
     json_get_bool |-> {"JSON_TRUE", "JSON_FALSE"}]

\* a document whose root is an object
InitGetDoc ==
    /\ InitObject
    /\ InitVec(JSON_VEC_INIT_CAP)
    /\ \E object \in {d \in Documents(0) : d.type = "JSON_OBJECT"} : InitDoc(object)
    /\ InitRest

\* one call of a json_get_* function on the root, which ends as r
Get(call, key, r) ==
    /\ ~got.done
    /\ got' = [done |-> TRUE, call |-> call, key |-> key, r |-> r]
    /\ UNCHANGED << pvars, heap, hvars, vvars, svars >>

GetObject(key) ==
    Get("json_get_object", key,
        [end |-> "value", value |-> json_get_object(root, key)])

GetArray(key, ndebug, null_read) ==
    Get("json_get_array", key, json_get_array(root, key, ndebug, null_read))

GetString(key, ndebug, null_read) ==
    Get("json_get_string", key, json_get_string(root, key, ndebug, null_read))

GetNumber(key, ndebug, null_read) ==
    Get("json_get_number", key, json_get_number(root, key, ndebug, null_read))

GetBool(key, ndebug, null_read) ==
    Get("json_get_bool", key, json_get_bool(root, key, ndebug, null_read))

NextGet ==
    \/ \E key \in GetKeys : GetObject(key)
    \/ \E key \in GetKeys, ndebug \in BOOLEAN, null_read \in NullReads :
          GetArray(key, ndebug, null_read)
    \/ \E key \in GetKeys, ndebug \in BOOLEAN, null_read \in NullReads :
          GetString(key, ndebug, null_read)
    \/ \E key \in GetKeys, ndebug \in BOOLEAN, null_read \in NullReads :
          GetNumber(key, ndebug, null_read)
    \/ \E key \in GetKeys, ndebug \in BOOLEAN, null_read \in NullReads :
          GetBool(key, ndebug, null_read)

SpecGet == InitGetDoc /\ [][NextGet]_vars

\* C16: json_get_array, json_get_string, json_get_number and json_get_bool
\* for a key that the object lacks or whose child has another type end in the
\* reported type-mismatch error; json_get_object for a key that the object
\* lacks returns NULL.
C16_MismatchIsFatalError ==
    got.done =>
        IF got.call = "json_get_object"
        THEN json_hmap_get_node(root.hmap, json_hash_str(got.key)) < 0
                => got.r = [end |-> "value", value |-> NullObject]
        ELSE json_get_object(root, got.key).type \notin Expected[got.call]
                => got.r = [end |-> "error"]

\* ------------------------------------------- the allocators of a document

\* the most pages a document gets
MaxPages == 10
\* the most tracked blocks allocated after the start
MaxTracked == 3
\* the most blocks freed before json_unload
MaxFrees == 3

\* the sizes asked of json_page_alloc: half a page, and a page
AllocSizes == {JSON_PAGE_SIZE \div 2, JSON_PAGE_SIZE}

\* a json_t fresh from json_load_empty, or one in which so many empty arrays
\* were made that the tracked table is two blocks short of full
InitHeapAny ==
    /\ InitObject
    /\ InitVec(JSON_VEC_INIT_CAP)
    /\ InitDoc(NullObject)
    /\ InitText(<< >>)
    /\ InitGot
    /\ \E n \in {0, JSON_INIT_TRACKED_CAP - 2} :
          heap = [alloc_new_arrays(n) EXCEPT !.first = n]

HeapStep(json) ==
    /\ ~heap.unloaded
    /\ heap' = json
    /\ UNCHANGED << pvars, got, hvars, vvars, svars >>

\* the tracked slots the calls of the model work on
Slots == heap.first..(heap.cur_tracked - 1)

\* json_page_alloc(json, size): json_empty_object, json_expect_string and the
\* structs of the containers
PageAlloc(size, intact) ==
    /\ heap.cur_page < MaxPages
    /\ HeapStep(json_page_alloc(heap, size, intact))

\* json_tracked_alloc(json, size): json_vec_make, json_hnodes_alloc
TrackedAlloc(size, junk) ==
    /\ heap.cur_tracked < heap.first + MaxTracked
    /\ HeapStep(json_tracked_alloc(heap, size, junk))

\* json_tracked_realloc(json, vec->data, size): json_vec_alloc_one and
\* json_vec_free_one, on the block of a vector
TrackedRealloc(index, size, junk) ==
    /\ heap.frees < MaxFrees
    /\ heap.tracked[index] = TPTR_LIVE
    /\ HeapStep(json_tracked_realloc(heap, index, size, junk))

\* json_tracked_free(json, old_nodes): json_hmap_rehash, on the old table
TrackedFree(index) ==
    /\ heap.frees < MaxFrees
    /\ heap.tracked[index] = TPTR_LIVE
    /\ HeapStep(json_tracked_free(heap, index))

\* json_unload(json)
Unload(intact) == HeapStep(json_unload(heap, intact))

NextHeap ==
    \/ \E size \in AllocSizes, intact \in BOOLEAN : PageAlloc(size, intact)
    \/ TrackedAlloc(0, 0)
    \/ \E index \in Slots : TrackedRealloc(index, 0, 0)
    \/ \E index \in Slots : TrackedFree(index)
    \/ \E intact \in BOOLEAN : Unload(intact)

SpecHeap == InitHeapAny /\ [][NextHeap]_vars

\* the same calls where no request is as large as a page
NextHeapSmall ==
    \/ \E intact \in BOOLEAN : PageAlloc(JSON_PAGE_SIZE \div 2, intact)
    \/ TrackedAlloc(0, 0)
    \/ \E index \in Slots : TrackedRealloc(index, 0, 0)
    \/ \E index \in Slots : TrackedFree(index)
    \/ \E intact \in BOOLEAN : Unload(intact)

SpecHeapSmall == InitHeapAny /\ [][NextHeapSmall]_vars

\* C17: once json_unload returned, every block malloc handed out for the
\* document was freed, and free was given nothing but live blocks.
C17_UnloadFreesAll ==
    heap.unloaded => heap.frees = heap.mallocs /\ ~heap.bad_free

\* ------------------------------------------------- claims on the probe chains

\* the slot a node of the table hashes to
Home(h, i) == h.nodes[i].hash % h.cap
\* how many slots after its home slot i lies, cyclically
ProbeDistance(h, i) == (i + h.cap - Home(h, i)) % h.cap

\* C18: after every put and pop the steps of each node of the table is the
\* distance of its slot from its home.
C18_StepsIsProbeDistance ==
    \A i \in Occupied(hmap) : hmap.nodes[i].steps = ProbeDistance(hmap, i)

\* C19: after every put and pop each slot between the home of a node and the
\* slot of the node holds a node, and json_hmap_get_node finds each node of
\* the table.
C19_NoGapInChain ==
    \A i \in Occupied(hmap) :
        /\ \A d \in 0..ProbeDistance(hmap, i) :
              (Home(hmap, i) + d) % hmap.cap \in Occupied(hmap)
        /\ json_hmap_get_node(hmap, hmap.nodes[i].hash) = i

\* ------------------------------------------------- claims on stale addresses

\* C20: no json_pop stores into the key-order list through an address that
\* it took before the list was reallocated.
C20_NoStaleStore ==
    [][\A k \in ShrinkKeys, lhs_first \in BOOLEAN, junk \in Pointers :
          json_pop(k, lhs_first, junk)
          => ~json_hmap_del(hmap, k, FALSE, lhs_first, FALSE, junk).stale]_vars

\* ------------------------------------- the vector under pushes and removals

\* json_vec_push(json, vec, item) at any time
VecPushAny(item) ==
    /\ ~vec_over
    /\ n_push < MaxVecOps
    /\ vec' = json_vec_push(vec, item)
    /\ vec_over' = (json_vec_alloc_one(vec).cap < vec.size + 1)
    /\ n_push' = n_push + 1
    /\ UNCHANGED << n_pop, hvars, svars, xvars >>

\* a removal that leaves the vector as v; JSON_ASSERT wants a size above 0
VecRemove(v) ==
    /\ ~vec_over
    /\ vec.size > 0
    /\ vec' = v
    /\ n_pop' = n_pop + 1
    /\ UNCHANGED << n_push, vec_over, hvars, svars, xvars >>

\* json_vec_pop(json, vec)
VecPopAny == VecRemove(json_vec_pop(vec))

\* json_vec_del(json, vec, index)
VecDel(index, lhs_first) ==
    index < vec.size /\ VecRemove(json_vec_del(vec, index, lhs_first))

\* json_vec_del_ordered(json, vec, index)
VecDelOrdered(index, backward) ==
    index < vec.size /\ VecRemove(json_vec_del_ordered(vec, index, backward))

\* TRUE of a step that is a removal from the vector
IsRemoval ==
    \/ VecPopAny
    \/ \E index \in 0..(vec.size - 1), flag \in BOOLEAN :
          VecDel(index, flag) \/ VecDelOrdered(index, flag)

NextVecAll ==
    \/ \E item \in Objects : VecPushAny(item)
    \/ VecPopAny
    \/ \E index \in 0..(vec.size - 1), lhs_first \in BOOLEAN :
          VecDel(index, lhs_first)
    \/ \E index \in 0..(vec.size - 1), backward \in BOOLEAN :
          VecDelOrdered(index, backward)

SpecVecAll == InitVecAny /\ [][NextVecAll]_vars

\* ------------------------------------------ claims on the vector's capacity

\* C21: after every push, pop, json_vec_del and json_vec_del_ordered the size
\* of the vector is at most its capacity and the capacity at least min_cap; a
\* step changes the capacity only by doubling it in a push made with
\* size + 1 > cap, or by halving it in a removal.
C21_SizeWithinCapacity ==
    [][/\ vec'.size <= vec'.cap
       /\ vec'.cap >= vec'.min_cap
       /\ vec'.cap # vec.cap =>
             \/ /\ \E item \in Objects : VecPushAny(item)
                /\ vec.size + 1 > vec.cap
                /\ vec'.cap = 2 * vec.cap
             \/ /\ IsRemoval
                /\ vec'.cap = vec.cap \div 2]_vars

\* TRUE of a step that is a json_vec_pop or a json_vec_del_ordered
IsPopOrDelOrdered ==
    \/ VecPopAny
    \/ \E index \in 0..(vec.size - 1), backward \in BOOLEAN :
          VecDelOrdered(index, backward)

\* C22 as stated: json_vec_pop removes the last element, and it and
\* json_vec_del_ordered halve the capacity exactly when the size after the
\* removal is below a quarter of the capacity and the capacity above min_cap.
C22_ShrinkOnSizeAfter ==
    [][IsPopOrDelOrdered =>
          /\ vec'.size = vec.size - 1
          /\ VecPopAny => vec'.data = SubSeq(vec.data, 1, vec.size - 1)
          /\ vec'.cap = IF vec'.size < vec.cap \div 4 /\ vec.cap > vec.min_cap
                        THEN vec.cap \div 2 ELSE vec.cap]_vars

\* C22, amended: json_vec_pop removes the last element, and it and
\* json_vec_del_ordered halve the capacity exactly when the size before the
\* removal is below a quarter of the capacity and the capacity above min_cap.
C22_ShrinkOnSizeBefore ==
    [][IsPopOrDelOrdered =>
          /\ vec'.size = vec.size - 1
          /\ VecPopAny => vec'.data = SubSeq(vec.data, 1, vec.size - 1)
          /\ vec'.cap = IF vec.size < vec.cap \div 4 /\ vec.cap > vec.min_cap
                        THEN vec.cap \div 2 ELSE vec.cap]_vars

\* a vector made with capacity 4 that grew to 8 in five pushes and that the
\* last of five removals halved
C22_PoppedAndHalved ==
    /\ vec.min_cap = 4
    /\ n_push = 5
    /\ n_pop = 5
    /\ vec.size = 0
    /\ vec.cap = 4

\* ------------------------------------------- the tracked heap on its own

\* the most blocks the tracked heap hands out after the start
MaxBlocks == 4
\* the sizes asked of json_tracked_alloc and json_tracked_realloc, in bytes
BlockSizes == {1, 2}
\* what a byte of a block fresh from malloc holds
Junk == {0, 1}

\* TRUE while the tracked heap may hand out one more block
MoreBlocks == Len(heap.blocks) < heap.first + MaxBlocks

NextTracked ==
    \/ \E size \in BlockSizes, junk \in Junk :
          MoreBlocks /\ TrackedAlloc(size, junk)
    \/ \E index \in Slots, size \in BlockSizes, junk \in Junk :
          MoreBlocks /\ TrackedRealloc(index, size, junk)
    \/ \E index \in Slots : TrackedFree(index)

SpecTracked == InitHeapAny /\ [][NextTracked]_vars

\* --------------------------------------------- claims on the tracked heap

\* the blocks of the tracked heap that were not freed
LiveBlocks(json) == {b \in 1..Len(json.blocks) : json.blocks[b].live}

\* each cell of the table is NULL or points at a live block whose header has
\* the index of the cell, and each live block is pointed at by the cell of its
\* index: two live blocks of one index would both be the block of that cell
OneBlockPerIndex(json) ==
    /\ \A i \in DOMAIN json.cell :
          json.cell[i] # NULL =>
              /\ json.blocks[json.cell[i]].live
              /\ json.blocks[json.cell[i]].index = i
    /\ \A b \in 1..Len(json.blocks) :
          json.blocks[b].live => json.cell[json.blocks[b].index] = b

\* the block the step allocated, and the table but for the cell index
NewBlock == heap'.blocks[Len(heap.blocks) + 1]
OtherCellsKept(index) ==
    \A i \in DOMAIN heap.cell : i # index => heap'.cell[i] = heap.cell[i]

\* the first bytes of block tptr are those of block old_tptr, as far as the
\* smaller of the two reaches
SameStart(tptr, old_tptr) ==
    \A k \in 1..tptr.size : k <= old_tptr.size => tptr.bytes[k] = old_tptr.bytes[k]

\* C23: json_tracked_alloc hands out an index that no block had before;
\* json_tracked_realloc gives the new block the index of the old one, makes
\* the cell of that index point at it and copies the first min(old size, new
\* size) bytes; json_tracked_free sets only the cell of the block to NULL; and
\* at all times no two live blocks have the same index.
C23_IndexNamesOneBlock ==
    [][/\ OneBlockPerIndex(heap')
       /\ (\E size \in BlockSizes, junk \in Junk : TrackedAlloc(size, junk)) =>
             /\ \A b \in 1..Len(heap.blocks) :
                   heap.blocks[b].index # NewBlock.index
             /\ heap'.cell[NewBlock.index] = Len(heap.blocks) + 1
             /\ OtherCellsKept(NewBlock.index)
       /\ \A index \in Slots :
             (\E size \in BlockSizes, junk \in Junk :
                  TrackedRealloc(index, size, junk)) =>
                 /\ NewBlock.index = index
                 /\ heap'.cell[index] = Len(heap.blocks) + 1
                 /\ SameStart(NewBlock, heap.blocks[heap.cell[index]])
                 /\ ~heap'.blocks[heap.cell[index]].live
                 /\ OtherCellsKept(index)
       /\ \A index \in Slots :
             TrackedFree(index) =>
                 /\ heap'.cell[index] = NULL
                 /\ OtherCellsKept(index)
                 /\ LiveBlocks(heap') = LiveBlocks(heap) \ {heap.cell[index]}]_vars

\* the table was doubled, and a block of one byte was reallocated to one of
\* two bytes whose second byte is what malloc left there
C23_ReallocatedAfterGrowth ==
    /\ heap.tracked_cap > JSON_INIT_TRACKED_CAP
    /\ \E b1, b2 \in 1..Len(heap.blocks) :
          /\ b1 < b2
          /\ heap.blocks[b1].index = heap.blocks[b2].index
          /\ ~heap.blocks[b1].live
          /\ heap.cell[heap.blocks[b2].index] = b2
          /\ heap.blocks[b1].bytes = << 0 >>
          /\ heap.blocks[b2].bytes = << 0, 1 >>

\* ------------------------------------------------- claims on the page arena

\* TRUE of a step that is json_page_alloc(json, size)
IsPageAlloc(size) == \E intact \in BOOLEAN : PageAlloc(size, intact)

\* the slice lies in one page of the document
SliceInPage(json) ==
    /\ ~json.slice.wild
    /\ json.slice.page <= json.cur_page
    /\ json.slice.offset + json.slice.size <= json.page_size[json.slice.page + 1]

\* C24: after every json_page_alloc the offset is at most JSON_PAGE_SIZE and
\* the slice returned lies in one page; a request that does not fit in the
\* rest of the current page is served from the start of a new page; a request
\* of JSON_PAGE_SIZE or more is served from the start of a page of the size
\* asked, and the next request finds a new page of JSON_PAGE_SIZE at offset 0
\* (or, when the request of JSON_PAGE_SIZE took the whole of an unused page,
\* no room in it).
C24_SliceInsideOnePage ==
    [][\A size \in AllocSizes :
          IsPageAlloc(size) =>
              /\ heap'.used <= JSON_PAGE_SIZE
              /\ SliceInPage(heap')
              /\ heap'.slice.size = size
              /\ heap.used + size <= JSON_PAGE_SIZE =>
                    /\ heap'.slice.page = heap.cur_page
                    /\ heap'.slice.offset = heap.used
              /\ heap.used + size > JSON_PAGE_SIZE =>
                    /\ heap'.slice.page = heap.cur_page + 1
                    /\ heap'.slice.offset = 0
              /\ size >= JSON_PAGE_SIZE =>
                    /\ heap'.slice.offset = 0
                    /\ heap'.page_size[heap'.slice.page + 1] = size
                    /\ \/ /\ heap'.cur_page = heap'.slice.page + 1
                          /\ heap'.page_size[heap'.cur_page + 1] = JSON_PAGE_SIZE
                          /\ heap'.used = 0
                       \/ /\ heap'.cur_page = heap'.slice.page
                          /\ heap'.used = JSON_PAGE_SIZE]_vars

\* --------------------------------------------------- a key whose hash is 0

\* the keys of the model whose hash is 0
ZeroHashKeys == {key \in AllKeys : json_hash_str(key) = 0}

\* a client that fills an object with more keys than the table holds before
\* it grows twice, in a fixed order, and puts a key whose hash is 0 at any time
NextZeroGrow ==
    \/ \E key \in ShrinkKeys \ VecKeys, uninit \in UninitSteps :
          /\ \A k2 \in ShrinkKeys \ VecKeys : json_hash_str(key) <= json_hash_str(k2)
          /\ json_put(key, 1, uninit)
    \/ \E key \in ZeroHashKeys \ VecKeys, uninit \in UninitSteps :
          json_put(key, 1, uninit)

SpecZeroGrow == Init /\ [][NextZeroGrow]_vars

\* C25: a json_put of a key whose hash is 0 leaves no new slot that reads as
\* occupied and json_hmap_get returns NULL for the key, while the size field
\* is one more than before and the key is the new last entry of the key-order
\* list.
C25_ZeroHashPutIsLost ==
    [][\A key \in ZeroHashKeys, child \in Objects, uninit \in UninitSteps :
          json_put(key, child, uninit) /\ ~hung' =>
              /\ Occupied(hmap') = Occupied(hmap) \/ hmap'.cap # hmap.cap
              /\ Cardinality(Occupied(hmap')) = Cardinality(Occupied(hmap))
              /\ json_hmap_get(hmap', key) = NULL
              /\ hmap'.size = Inc(hmap.size)
              /\ hmap'.vec.data = Append(hmap.vec.data, key)]_vars

\* ------------------------------------------------- claims on the size field

\* C26: after every put and pop, those that grow or shrink the table
\* included, the size field of the map is the number of occupied slots of its
\* table.
C26_SizeCountsNodes ==
    ~hung => hmap.size = Cardinality(Occupied(hmap))

\* ------------------------------------------------- claims on the page table

\* C27: after every json_page_alloc cur_page is below page_cap, and no page
\* pointer was stored outside the page table.
C27_PageIndexInsideTable ==
    heap.cur_page < heap.page_cap /\ ~heap.oob

\* ------------------------------------- puts, and pops of a key of hash 0

\* a client that puts keys in a fixed order and, between the puts, pops a key
\* whose hash is 0 and that it never put
NextFill ==
    \/ \E key \in ShrinkKeys \ VecKeys, uninit \in UninitSteps :
          /\ \A k2 \in ShrinkKeys \ VecKeys : json_hash_str(key) <= json_hash_str(k2)
          /\ json_put(key, 1, uninit)
    \/ /\ hmap.size > 0
       /\ \E key \in ZeroHashKeys, lhs_first \in BOOLEAN, junk \in Pointers :
             json_pop(key, lhs_first, junk)

SpecFill == Init /\ [][NextFill]_vars

\* ------------------------------------------------- claims on termination

\* C28: no json_get_object, json_put or json_pop runs for ever: after every
\* call the table has an empty slot, at which the probe loops stop.
C28_ProbesTerminate ==
    ~hung /\ \E i \in DOMAIN hmap.nodes : hmap.nodes[i].hash = 0

\* ---------------------------------------------- the root of a loaded text

\* the tokens of Tokens and the literals true and false
RootTokens ==
    Tokens \cup {<< "t", "r", "u", "e" >>, << "f", "a", "l", "s", "e" >>}

NextRoot ==
    \/ \E token \in RootTokens : Type(token)
    \/ \E uninit \in UninitSteps : LoadTyped(uninit)

\* nothing is typed yet
InitRoot == InitParse /\ typed = << >>

\* texts of up to MaxTokens tokens typed from nothing
SpecRoot == InitRoot /\ [][NextRoot]_vars

\* the first character of text that is no whitespace, NUL when it has none
FirstChar(text) == At(text, SkipWs(text, 0))

\* C29: json_load of an empty text or of whitespace succeeds and leaves the
\* root NULL; a text that json_load accepts otherwise has an object or an
\* array as its root; a text whose first character after the whitespace is
\* neither '{' nor '[' ends in the parse error.
C29_RootIsContainerOrAbsent ==
    parsed.done =>
        /\ FirstChar(typed) = NUL => parsed.ok /\ parsed.root = NullObject
        /\ FirstChar(typed) = "{" /\ parsed.ok => parsed.root.type = "JSON_OBJECT"
        /\ FirstChar(typed) = "[" /\ parsed.ok => parsed.root.type = "JSON_ARRAY"
        /\ FirstChar(typed) \notin {NUL, "{", "["} => ~parsed.ok

\* json_load was called on whitespace followed by true
C29_TrueAfterWhitespace ==
    /\ parsed.done
    /\ typed = << " ", "\t", "\r", "\n", "t", "r", "u", "e" >>

\* ------------------------------------------- claims on the reported length

\* C30: the length json_serialize reports through out_len is the number of
\* characters of the text it returns, i.e. the index of the terminating NUL of
\* that text, in both modes and for every value.
C30_OutLenIsTextLength ==
    (ser.done /\ ~ser.fault /\ ~ser.over) => ser.out_len = Len(ser.str)

\* --------------------------------------------- claims on the string builder

\* the indents of SpecSer, and indents of one and of two blocks of
\* JSON_STRINGY_INIT_CAP characters
WideIndents ==
    (0..MaxIndent) \cup {JSON_STRINGY_INIT_CAP, 2 * JSON_STRINGY_INIT_CAP}

NextIndent ==
    \E mini \in BOOLEAN, indent \in WideIndents : Serialize(mini, indent)

SpecIndent == InitSer /\ [][NextIndent]_vars

\* C31: no json_stringy_append made while serializing writes past the block of
\* the string builder: pos + len <= cap holds after the capacity check and
\* before the copy, whatever the indent and the nesting depth.
C31_AppendInsideBlock == (ser.done /\ ~ser.fault) => ~ser.past

====
